---------------------------- MODULE Spec2Model ----------------------------
(***************************************************************************)
(* Model of the self-update subsystem of iw4x-launcher: the installer     *)
(* (launcher/update/update-installer.cxx, specification Spec), release     *)
(* discovery (launcher/update/update-discovery.cxx, SpecDiscovery), the    *)
(* inside of extract_launcher (SpecExtract), schedule_restart              *)
(* (SpecRestart), the Proton version ordering of                           *)
(* launcher/steam/steam-proton.cxx (SpecProton), the zip reader loop of    *)
(* extract_launcher (SpecZip), run_ghost_process (SpecGhost) and two       *)
(* install calls sharing one thread (SpecTasks).                           *)
(*                                                                         *)
(* One install call is a coroutine frame that walks download -> extract -> *)
(* swap; every filesystem operation of replace_launcher, rollback and      *)
(* cleanup is one step, with the outcome of the operation (success, error  *)
(* code, exception) chosen by the environment.                             *)
(***************************************************************************)
EXTENDS Integers, Sequences, FiniteSets, TLC

(***************************************************************************)
(* Bounds of the model.                                                    *)
(***************************************************************************)
\* install calls made on the one installer instance
MaxCalls == 2
\* rollback calls a caller makes on one returned update_result
MaxCallerRollbacks == 1

\* coroutine frames of install; Spec runs them one at a time
Frames == {1}

(***************************************************************************)
(* Paths.  An empty fs::path is the empty string.                          *)
(***************************************************************************)
EmptyPath == ""

\* current_executable_path (): the live executable T
T == "T"

backup_path(p) == IF p = "T" THEN "T.backup" ELSE EmptyPath

staging_path(p) == IF p = "T" THEN "T.new" ELSE EmptyPath

\* download_dir_ / ui.asset_name
Archive == "dl/asset"

\* download_dir_ / "launcher_update_extract"
ExtractDir == "dl/launcher_update_extract"

\* the file with a known binary name inside the extraction tree
Binary == "dl/launcher_update_extract/launcher"

Paths == {T, backup_path(T), staging_path(T), Archive, ExtractDir, Binary}

(***************************************************************************)
(* File contents.  "absent": no file; "dir": a directory; "partial": a     *)
(* truncated or half-written file; "old": the executable installed before  *)
(* the first call; "stale": a file left by an earlier program run; the     *)
(* binary shipped by the k-th install call is NewBinary(k).                *)
(***************************************************************************)
Absent == "absent"

NewBinary(k) == <<"new1", "new2", "new3", "new4">>[k]

ArchiveBytes(k) == <<"archive1", "archive2", "archive3", "archive4">>[k]

VARIABLES
    fs,          \* the filesystem: Paths -> contents
    temp_files,  \* update_installer::temp_files_, a sequence of paths
    calls,       \* install calls started so far
    pc,          \* per frame: position of the install coroutine
    r,           \* per frame: the update_result r of install
    rl,          \* per frame: the update_result r local to replace_launcher
    exc,         \* per frame: what () of the exception in flight / caught
    handler,     \* per frame: control is inside the catch handler of install
    idx,         \* per frame: position of cleanup's loop over temp_files_
    h            \* per frame: history of the call (observations only)

(***************************************************************************)
(* Release discovery (launcher/update/update-discovery.cxx): the state of  *)
(* one update_discovery object and of the one call running on it.          *)
(***************************************************************************)
VARIABLES
    platform,             \* what current_platform () answers on this build
    include_prerelease_,  \* update_discovery::include_prerelease_
    dpc,                  \* where the discovery coroutine is
    op,                   \* the public operation that was called
    current_version,      \* check_for_update's argument v
    tag,                  \* fetch_release_by_tag's argument t
    requests,             \* the registry requests this call has issued
    rs,                   \* fetch_latest_release's rs: the batch received
    rel,                  \* fetch_release_by_tag's rel: the release received
    latest,               \* the update_info fetch_latest_release / release_to_update_info produced
    ret                   \* the update_info the public operation co_returned

discovery_vars ==
    <<platform, include_prerelease_, dpc, op, current_version, tag, requests,
      rs, rel, latest, ret>>

(***************************************************************************)
(* extract_launcher (update-installer.cxx, lines 404-515) in detail: the   *)
(* choice of the extractor and the scan for the binary.                    *)
(***************************************************************************)
VARIABLES
    ap,         \* the file name of the archive path ap
    tree,       \* the extraction directory as recursive_directory_iterator walks it
    xpc,        \* where extract_launcher is
    extractor,  \* the extractor that was chosen
    pos,        \* the entry the scan is at
    found,      \* the entry whose path was co_returned, 0 for none
    xerr        \* what () of the exception extract_launcher threw

extract_vars == <<ap, tree, xpc, extractor, pos, found, xerr>>

(***************************************************************************)
(* schedule_restart (update-installer.cxx, lines 230-323).                 *)
(***************************************************************************)
VARIABLES
    build,      \* which side of #ifdef _WIN32 was compiled
    target,     \* schedule_restart's argument n
    disk,       \* the restart targets that exist on disk
    rperms,     \* the targets that carry the executable permission bits
    script,     \* the lines of download_dir_ / "launcher_restart.bat"
    rpc,        \* where schedule_restart is
    rret,       \* how schedule_restart ended
    spawned,    \* the command lines handed to CreateProcessA
    image       \* the image the process runs, and its arguments

restart_vars ==
    <<build, target, disk, rperms, script, rpc, rret, spawned, image>>

(***************************************************************************)
(* proton_manager::detect_proton_versions (steam/steam-proton.cxx).        *)
(***************************************************************************)
VARIABLES
    common,     \* the entries of steamapps/common as directory_iterator gives them
    detected,   \* the vector r that detect_proton_versions returns
    ppc         \* where detect_proton_versions is

proton_vars == <<common, detected, ppc>>

\* the zip reader of extract_launcher: the entries of the archive, the loop
\* index i, the paths written so far, and the control point
VARIABLES zentries, zi, zwritten, zpc

zip_vars == <<zentries, zi, zwritten, zpc>>

\* run_ghost_process: whether this is a Steam Deck, whether the compatdata
\* directory exists, the loop counter i, what the call has done so far, the
\* seconds it has waited, how it ended, and the control point
VARIABLES deck, compatdata, gi, glog, gwaited, gret, gpc

ghost_vars == <<deck, compatdata, gi, glog, gwaited, gret, gpc>>

\* two install calls on one installer, run by one thread: each call's
\* control point, which call holds the thread (0: none, the executor is
\* free to resume a suspended call), the shared temp_files_ with the call
\* that registered each entry, which call's content each shared path holds
\* (0: absent), the target, and the calls whose archive another call's
\* cleanup deleted
VARIABLES tpc, running, tlist, tdisk, tT, trobbed

task_vars == <<tpc, running, tlist, tdisk, tT, trobbed>>

installer_vars == <<fs, temp_files, calls, pc, r, rl, exc, handler, idx, h>>

\* what the actions of one component leave alone

outside_installer ==
    <<discovery_vars, extract_vars, restart_vars, proton_vars, zip_vars, ghost_vars, task_vars>>
outside_discovery ==
    <<installer_vars, extract_vars, restart_vars, proton_vars, zip_vars, ghost_vars, task_vars>>
outside_extract ==
    <<installer_vars, discovery_vars, restart_vars, proton_vars, zip_vars, ghost_vars, task_vars>>
outside_restart ==
    <<installer_vars, discovery_vars, extract_vars, proton_vars, zip_vars, ghost_vars, task_vars>>
outside_proton ==
    <<installer_vars, discovery_vars, extract_vars, restart_vars, zip_vars, ghost_vars, task_vars>>
outside_zip ==
    <<installer_vars, discovery_vars, extract_vars, restart_vars, proton_vars, ghost_vars, task_vars>>
outside_ghost ==
    <<installer_vars, discovery_vars, extract_vars, restart_vars, proton_vars, zip_vars, task_vars>>
outside_tasks ==
    <<installer_vars, discovery_vars, extract_vars, restart_vars, proton_vars, zip_vars, ghost_vars>>

vars ==
    <<installer_vars, discovery_vars, extract_vars, restart_vars, proton_vars, zip_vars, ghost_vars, task_vars>>

\* a default-constructed update_result
update_result ==
    [success |-> FALSE, installed_path |-> EmptyPath,
     backup_path |-> EmptyPath, error_message |-> ""]

\* the history of a call that has not done anything yet
NoHistory ==
    [call |-> 0,             \* number of the call on this installer
     entered |-> FALSE,      \* the call passed the sanity check
     T0 |-> Absent,          \* contents of T when install was called
     nb |-> Absent,          \* contents of the binary given to replace_launcher
     stage |-> "",           \* outcome of the copy to T.new
     backup |-> "",          \* "rename" | "copy" | "failed" | "none"
     move |-> "",            \* outcome of rename T.new -> T
     copy |-> "",            \* outcome of copy T.new -> T
     restore |-> "",         \* outcome of the emergency restore
     rb |-> "",              \* result of the rollback install ran
     rbc |-> "",             \* result of the last rollback the caller ran
     rbfs |-> [p \in Paths |-> Absent],  \* filesystem when rollback was entered
     rbend |-> [p \in Paths |-> Absent], \* filesystem when that rollback returned
     rbremove |-> "",        \* outcome of the remove of the last rollback
     rbrename |-> "",        \* outcome of the rename of the last rollback
     rbstale |-> FALSE,      \* rollback removed installed_path with no backup file
     rbcaller |-> 0,         \* rollback calls made by the caller
     incaller |-> FALSE,     \* the running rollback was called by the caller
     cleanups |-> 0,         \* cleanup calls that ran to completion
     clraised |-> FALSE,     \* a cleanup call raised
     clfailed |-> FALSE,     \* a deletion of cleanup failed
     clattempts |-> {},      \* entries the running cleanup looked at
     dlpartial |-> FALSE,    \* the failed download left a file behind
     xfailed |-> FALSE,      \* extraction failed after the directory was made
     prev |-> [r |-> update_result, rb |-> ""]]
                             \* what the previous call returned, and the
                             \* result of the rollback it ran

(***************************************************************************)
(* Filesystem primitives.  Each returns the set of filesystems the call    *)
(* can leave behind for the given outcome.                                 *)
(***************************************************************************)
exists(f, p) == p \in DOMAIN f /\ f[p] # Absent

is_directory(f, p) == p \in DOMAIN f /\ f[p] = "dir"

\* a rename that leaves the source in place
rename_keeping_source(f, from, to) == [f EXCEPT ![to] = f[from]]

\* fs::rename (from, to, ec) succeeded: atomic replace of the destination
rename_ok(f, from, to) == [f EXCEPT ![to] = f[from], ![from] = Absent]

\* a copy that reports success and leaves a truncated destination
copy_file_truncating(f, from, to) == [f EXCEPT ![to] = "partial"]

\* fs::copy_file (from, to, overwrite_existing, ec) succeeded
copy_file_ok(f, from, to) == [f EXCEPT ![to] = f[from]]

\* fs::copy_file failed: the destination is untouched or half-written
copy_file_failed(f, from, to) == {f, [f EXCEPT ![to] = "partial"]}

\* fs::remove (p, ec) succeeded
remove_ok(f, p) == [f EXCEPT ![p] = Absent]

\* fs::remove_all (p, ec) succeeded: the directory and what is below it
remove_all_ok(f, p) ==
    [q \in Paths |-> IF q = p \/ (p = ExtractDir /\ q = Binary)
                     THEN Absent ELSE f[q]]

\* fs::remove_all failed: the directory stays, files below it may be gone
remove_all_failed(f, p) ==
    {f} \cup (IF p = ExtractDir THEN {[f EXCEPT ![Binary] = Absent]} ELSE {})

(***************************************************************************)
(* Control.                                                                *)
(***************************************************************************)
Inactive == {"idle", "returned", "threw"}

Goto(c, l) == pc' = [pc EXCEPT ![c] = l]

\* a throw inside install: into the catch handler when it comes from the
\* try block, out of install when it comes from the handler itself
Raise(c, msg) ==
    /\ pc' = [pc EXCEPT ![c] = IF handler[c] THEN "threw" ELSE "catch"]
    /\ exc' = [exc EXCEPT ![c] = msg]

\* update_info values install is called with
UpdateInfos ==
    { [empty |-> TRUE, asset_url |-> ""],
      [empty |-> FALSE, asset_url |-> ""],
      [empty |-> FALSE, asset_url |-> "url"] }

InstallerInit ==
    /\ fs \in { f \in [Paths -> {Absent, "old", "stale"}] :
                  /\ f[T] \in {Absent, "old"}
                  /\ f[backup_path(T)] \in {Absent, "stale"}
                  /\ f[staging_path(T)] \in {Absent, "stale"}
                  /\ f[Archive] = Absent
                  /\ f[ExtractDir] = Absent
                  /\ f[Binary] = Absent }
    /\ temp_files = <<>>
    /\ calls = 0
    /\ pc = [c \in Frames |-> "idle"]
    /\ r = [c \in Frames |-> update_result]
    /\ rl = [c \in Frames |-> update_result]
    /\ exc = [c \in Frames |-> ""]
    /\ handler = [c \in Frames |-> FALSE]
    /\ idx = [c \in Frames |-> 1]
    /\ h = [c \in Frames |-> NoHistory]

\* the installer before any call, with nothing on disk
InstallerRest == InstallerInit /\ fs = [p \in Paths |-> Absent]

(***************************************************************************)
(* install, lines 68-114: sanity check, download, extraction.              *)
(***************************************************************************)
\* what the call that last ran in frame c returned after a rollback of its
\* own, for the comparison of the results of two calls
Returned(c) ==
    IF h[c].rb \in {"true", "false"} /\ pc[c] = "returned"
    THEN [r |-> r[c], rb |-> h[c].rb]
    ELSE NoHistory.prev

\* install is entered: the sanity check on the update info
InstallBegin(c) ==
    /\ pc[c] \in Inactive
    /\ \A d \in Frames \ {c} : pc[d] \in Inactive
    /\ calls < MaxCalls
    /\ calls' = calls + 1
    /\ exc' = [exc EXCEPT ![c] = ""]
    /\ handler' = [handler EXCEPT ![c] = FALSE]
    /\ \E ui \in UpdateInfos :
         IF ui.empty \/ ui.asset_url = ""
         THEN /\ r' = [r EXCEPT ![c] =
                         [update_result EXCEPT !.error_message = "invalid update info"]]
              /\ h' = [h EXCEPT ![c] =
                         [NoHistory EXCEPT !.call = calls + 1, !.T0 = fs[T],
                                           !.prev = Returned(c)]]
              /\ Goto(c, "returned")
         ELSE /\ r' = [r EXCEPT ![c] = update_result]
              /\ h' = [h EXCEPT ![c] =
                         [NoHistory EXCEPT !.call = calls + 1, !.T0 = fs[T],
                                           !.entered = TRUE,
                                           !.prev = Returned(c)]]
              /\ Goto(c, "download")
    /\ UNCHANGED <<fs, temp_files, rl, idx>>
    /\ UNCHANGED outside_installer

\* co_await download_archive (ui), then temp_files_.push_back (a)
DownloadArchive(c) ==
    /\ pc[c] = "download"
    /\ \/ /\ fs' = [fs EXCEPT ![Archive] = ArchiveBytes(h[c].call)]
          /\ temp_files' = Append(temp_files, Archive)
          /\ Goto(c, "extract")
          /\ UNCHANGED <<exc, h>>
       \/ /\ \E partial \in BOOLEAN :
               /\ fs' = IF partial THEN [fs EXCEPT ![Archive] = "partial"] ELSE fs
               /\ h' = [h EXCEPT ![c].dlpartial = partial]
          /\ Raise(c, "download failed")
          /\ UNCHANGED temp_files
    /\ UNCHANGED <<calls, r, rl, handler, idx>>
    /\ UNCHANGED outside_installer

\* extract_launcher, lines 407-412: make the directory and register it
ExtractPrepare(c) ==
    /\ pc[c] = "extract"
    /\ \E ok \in BOOLEAN :
         fs' = IF ok /\ ~exists(fs, ExtractDir)
               THEN [fs EXCEPT ![ExtractDir] = "dir"] ELSE fs
    /\ temp_files' = Append(temp_files, ExtractDir)
    /\ Goto(c, "unpack")
    /\ UNCHANGED <<calls, r, rl, exc, handler, idx, h>>
    /\ UNCHANGED outside_installer

\* extract_launcher, lines 414-482: unpack the archive into the directory
ExtractArchive(c) ==
    /\ pc[c] = "unpack"
    /\ \/ /\ is_directory(fs, ExtractDir)
          /\ \E has \in BOOLEAN :
               fs' = IF has THEN [fs EXCEPT ![Binary] = NewBinary(h[c].call)] ELSE fs
          /\ Goto(c, "find_binary")
          /\ UNCHANGED <<exc, h>>
       \/ /\ \E wrote \in BOOLEAN :
               fs' = IF wrote /\ is_directory(fs, ExtractDir)
                     THEN [fs EXCEPT ![Binary] = "partial"] ELSE fs
          /\ h' = [h EXCEPT ![c].xfailed = is_directory(fs, ExtractDir)]
          /\ Raise(c, "failed to extract")
    /\ UNCHANGED <<temp_files, calls, r, rl, handler, idx>>
    /\ UNCHANGED outside_installer

\* the backup path registered as a temporary artifact
register_backup(tf, b) == Append(tf, backup_path(T))

\* line 102: temp_files_.push_back (b), b the path extract_launcher returned
register_binary(tf, b) == Append(tf, b)

\* extract_launcher, lines 484-515, and the push_back of line 102
FindBinary(c) ==
    /\ pc[c] = "find_binary"
    /\ IF exists(fs, Binary)
       THEN /\ temp_files' = register_binary(temp_files, Binary)
            /\ Goto(c, "check_binary")
            /\ UNCHANGED exc
       ELSE /\ Raise(c, "launcher binary not found in archive")
            /\ UNCHANGED temp_files
    /\ UNCHANGED <<fs, calls, r, rl, handler, idx, h>>
    /\ UNCHANGED outside_installer

\* the check of line 108 skipped
binary_never_missing(f, b) == FALSE

\* line 108: !fs::exists (b)
binary_missing(f, b) == ~exists(f, b)

\* install, lines 108-114: the extractor produced the file or something is
\* really wrong with the environment; `gone' is the environment (a scanner
\* quarantining the file) having removed it since the scan
CheckBinary(c) ==
    /\ pc[c] = "check_binary"
    /\ \E gone \in BOOLEAN :
         LET f == IF gone THEN remove_ok(fs, Binary) ELSE fs IN
         \/ /\ ~binary_missing(f, Binary)
            /\ fs' = f
            /\ h' = [h EXCEPT ![c].nb = f[Binary]]
            /\ Goto(c, "rl_stage")
            /\ UNCHANGED <<r, exc>>
         \/ /\ binary_missing(f, Binary)
            /\ fs' = f
            /\ r' = [r EXCEPT ![c].error_message =
                        "extraction failed: launcher binary not found"]
            /\ Goto(c, "cleanup")
            /\ UNCHANGED <<exc, h>>
         \/ /\ ~gone
            /\ Raise(c, "filesystem error")
            /\ UNCHANGED <<fs, r, h>>
    /\ UNCHANGED <<temp_files, calls, rl, handler, idx>>
    /\ UNCHANGED outside_installer

(***************************************************************************)
(* replace_launcher, lines 517-611.  Its result is the local rl [c]; the   *)
(* r of install is assigned when replace_launcher returns.                 *)
(***************************************************************************)
\* return r: the assignment r = replace_launcher (b, t) of install
ReplaceReturn(c, res) ==
    /\ r' = [r EXCEPT ![c] = res]
    /\ rl' = [rl EXCEPT ![c] = res]
    /\ Goto(c, "replaced")

\* line 575: r.backup_path = b
record_backup(res, b) == [res EXCEPT !.backup_path = b]

\* the backup path recorded before the backup is known to exist
backup_failed_recorded(res, b) ==
    [res EXCEPT !.error_message = "failed to backup current launcher",
                !.backup_path = b]

\* lines 569-570: the result of a backup step that failed both ways
backup_failed(res, b) ==
    [res EXCEPT !.error_message = "failed to backup current launcher"]

\* lines 593-594: the result of a move that failed both ways
install_failed(res) ==
    [res EXCEPT !.error_message = "failed to install new launcher"]

\* line 609: r.success = true
replaced(res) == [res EXCEPT !.success = TRUE]

\* the copy fallback with source and destination swapped
copy_out_of_place(f) == copy_file_ok(f, T, staging_path(T))

\* line 589: fs::copy_file (s, t, overwrite_existing, ec) succeeded
copy_into_place(f) == copy_file_ok(f, staging_path(T), T)

\* lines 521-538 (and the permissions of 540-547): stage the new binary
ReplaceStage(c) ==
    /\ pc[c] = "rl_stage"
    /\ LET res == [update_result EXCEPT !.installed_path = T] IN
       \/ /\ fs' = copy_file_ok(fs, Binary, staging_path(T))
          /\ rl' = [rl EXCEPT ![c] = res]
          /\ h' = [h EXCEPT ![c].stage = "ok"]
          /\ Goto(c, "rl_exists")
          /\ UNCHANGED r
       \/ /\ fs' \in copy_file_failed(fs, Binary, staging_path(T))
          /\ h' = [h EXCEPT ![c].stage = "failed"]
          /\ ReplaceReturn(c, [res EXCEPT !.error_message = "failed to copy new binary"])
    /\ UNCHANGED <<temp_files, calls, exc, handler, idx>>
    /\ UNCHANGED outside_installer

\* lines 551-554: is there an executable to back up, and a stale backup
ReplaceExists(c) ==
    /\ pc[c] = "rl_exists"
    /\ \/ /\ exists(fs, T)
          /\ Goto(c, IF exists(fs, backup_path(T)) THEN "rl_remove_stale"
                                                   ELSE "rl_backup_rename")
          /\ UNCHANGED <<exc, h>>
       \/ /\ ~exists(fs, T)
          /\ h' = [h EXCEPT ![c].backup = "none"]
          /\ Goto(c, "rl_move")
          /\ UNCHANGED exc
       \/ /\ Raise(c, "filesystem error")
          /\ UNCHANGED h
    /\ UNCHANGED <<fs, temp_files, calls, r, rl, handler, idx>>
    /\ UNCHANGED outside_installer

\* line 555: fs::remove (b, ec), its error ignored
ReplaceRemoveStale(c) ==
    /\ pc[c] = "rl_remove_stale"
    /\ fs' \in {remove_ok(fs, backup_path(T)), fs}
    /\ Goto(c, "rl_backup_rename")
    /\ UNCHANGED <<temp_files, calls, r, rl, exc, handler, idx, h>>
    /\ UNCHANGED outside_installer

\* lines 557-558 and 575: fs::rename (t, b, ec)
ReplaceBackupRename(c) ==
    /\ pc[c] = "rl_backup_rename"
    /\ \/ /\ fs' = rename_ok(fs, T, backup_path(T))
          /\ rl' = [rl EXCEPT ![c] = record_backup(rl[c], backup_path(T))]
          /\ h' = [h EXCEPT ![c].backup = "rename"]
          /\ Goto(c, "rl_move")
       \/ /\ Goto(c, "rl_backup_copy")
          /\ UNCHANGED <<fs, rl, h>>
    /\ UNCHANGED <<temp_files, calls, r, exc, handler, idx>>
    /\ UNCHANGED outside_installer

\* lines 565-570 and 575: the copy fallback of the backup
ReplaceBackupCopy(c) ==
    /\ pc[c] = "rl_backup_copy"
    /\ \/ /\ fs' = copy_file_ok(fs, T, backup_path(T))
          /\ rl' = [rl EXCEPT ![c] = record_backup(rl[c], backup_path(T))]
          /\ h' = [h EXCEPT ![c].backup = "copy"]
          /\ Goto(c, "rl_move")
       \/ /\ fs' \in copy_file_failed(fs, T, backup_path(T))
          /\ rl' = [rl EXCEPT ![c] = backup_failed(rl[c], backup_path(T))]
          /\ h' = [h EXCEPT ![c].backup = "failed"]
          /\ Goto(c, "rl_drop_staging")
    /\ UNCHANGED <<temp_files, calls, r, exc, handler, idx>>
    /\ UNCHANGED outside_installer

\* lines 571-572: fs::remove (s, ec) and return r
ReplaceDropStaging(c) ==
    /\ pc[c] = "rl_drop_staging"
    /\ fs' \in {remove_ok(fs, staging_path(T)), fs}
    /\ ReplaceReturn(c, rl[c])
    /\ UNCHANGED <<temp_files, calls, exc, handler, idx, h>>
    /\ UNCHANGED outside_installer

\* lines 582-583 and 608-610: fs::rename (s, t, ec)
ReplaceMove(c) ==
    /\ pc[c] = "rl_move"
    /\ \/ /\ fs' = rename_ok(fs, staging_path(T), T)
          /\ h' = [h EXCEPT ![c].move = "ok"]
          /\ ReplaceReturn(c, replaced(rl[c]))
       \/ /\ h' = [h EXCEPT ![c].move = "failed"]
          /\ Goto(c, "rl_copy")
          /\ UNCHANGED <<fs, r, rl>>
    /\ UNCHANGED <<temp_files, calls, exc, handler, idx>>
    /\ UNCHANGED outside_installer

\* lines 589-594: the copy fallback of the move
ReplaceCopy(c) ==
    /\ pc[c] = "rl_copy"
    /\ \/ /\ fs' = copy_into_place(fs)
          /\ h' = [h EXCEPT ![c].copy = "ok"]
          /\ Goto(c, "rl_remove_staging")
          /\ UNCHANGED rl
       \/ /\ fs' \in copy_file_failed(fs, staging_path(T), T)
          /\ rl' = [rl EXCEPT ![c] = install_failed(rl[c])]
          /\ h' = [h EXCEPT ![c].copy = "failed"]
          /\ Goto(c, "rl_restore")
    /\ UNCHANGED <<temp_files, calls, r, exc, handler, idx>>
    /\ UNCHANGED outside_installer

\* lines 605-610: fs::remove (s, ec), its error ignored, and success
ReplaceRemoveStaging(c) ==
    /\ pc[c] = "rl_remove_staging"
    /\ fs' \in {remove_ok(fs, staging_path(T)), fs}
    /\ ReplaceReturn(c, replaced(rl[c]))
    /\ UNCHANGED <<temp_files, calls, exc, handler, idx, h>>
    /\ UNCHANGED outside_installer

\* lines 596-603: panic mode, try to put the backup back
ReplaceRestore(c) ==
    /\ pc[c] = "rl_restore"
    /\ \/ /\ rl[c].backup_path # EmptyPath
          /\ exists(fs, backup_path(T))
          /\ \/ /\ fs' = rename_ok(fs, backup_path(T), T)
                /\ h' = [h EXCEPT ![c].restore = "ok"]
             \/ /\ h' = [h EXCEPT ![c].restore = "failed"]
                /\ UNCHANGED fs
          /\ ReplaceReturn(c, rl[c])
          /\ UNCHANGED exc
       \/ /\ ~(rl[c].backup_path # EmptyPath /\ exists(fs, backup_path(T)))
          /\ h' = [h EXCEPT ![c].restore = "skipped"]
          /\ ReplaceReturn(c, rl[c])
          /\ UNCHANGED <<fs, exc>>
       \/ /\ rl[c].backup_path # EmptyPath
          /\ Raise(c, "filesystem error")
          /\ UNCHANGED <<fs, r, rl, h>>
    /\ UNCHANGED <<temp_files, calls, handler, idx>>
    /\ UNCHANGED outside_installer

(***************************************************************************)
(* install, lines 125-139: the outcome of the swap.                        *)
(***************************************************************************)
AfterReplace(c) ==
    /\ pc[c] = "replaced"
    /\ IF ~r[c].success
       THEN /\ h' = [h EXCEPT ![c].rbfs = fs]
            /\ Goto(c, "rb_check")
       ELSE /\ Goto(c, "cleanup")
            /\ UNCHANGED h
    /\ UNCHANGED <<fs, temp_files, calls, r, rl, exc, handler, idx>>
    /\ UNCHANGED outside_installer

(***************************************************************************)
(* rollback, lines 152-202, run by install on a failed swap and by the     *)
(* caller of install on the result install returned.                       *)
(***************************************************************************)
\* the check of line 160 without its backup_path half
rollback_usable_installed_only(res) == res.installed_path # EmptyPath

\* line 160, negated: both paths were established
rollback_usable(res) ==
    res.backup_path # EmptyPath /\ res.installed_path # EmptyPath

\* the backup copied back instead of moved back
restore_backup_by_copy(f, res) ==
    copy_file_ok(f, res.backup_path, res.installed_path)

\* line 188: fs::rename (r.backup_path, r.installed_path, ec) succeeded
restore_backup(f, res) == rename_ok(f, res.backup_path, res.installed_path)

\* return from rollback: to install (which ignores the value and goes on to
\* cleanup) or to the caller
RollbackReturn(c, hist, f, result) ==
    IF hist.incaller
    THEN /\ h' = [h EXCEPT ![c] = [hist EXCEPT !.incaller = FALSE, !.rbc = result,
                                               !.rbend = f]]
         /\ Goto(c, "returned")
    ELSE /\ h' = [h EXCEPT ![c] = [hist EXCEPT !.rb = result, !.rbend = f]]
         /\ Goto(c, "cleanup")

\* a filesystem_error thrown by fs::exists inside rollback
RollbackRaise(c) ==
    IF h[c].incaller
    THEN /\ h' = [h EXCEPT ![c].incaller = FALSE, ![c].rbc = "raised"]
         /\ Goto(c, "returned")
         /\ UNCHANGED exc
    ELSE /\ h' = [h EXCEPT ![c].rb = "raised"]
         /\ Raise(c, "filesystem error")

\* the caller of install calls rollback on the returned update_result
CallerRollback(c) ==
    /\ pc[c] = "returned"
    /\ h[c].rbcaller < MaxCallerRollbacks
    /\ h' = [h EXCEPT ![c].rbcaller = @ + 1, ![c].incaller = TRUE,
                       ![c].rbfs = fs, ![c].rbc = "", ![c].rbrename = "",
                       ![c].rbremove = ""]
    /\ Goto(c, "rb_check")
    /\ UNCHANGED <<fs, temp_files, calls, r, rl, exc, handler, idx>>
    /\ UNCHANGED outside_installer

\* lines 157-165
RollbackCheck(c) ==
    /\ pc[c] = "rb_check"
    /\ IF rollback_usable(r[c])
       THEN /\ Goto(c, "rb_remove")
            /\ UNCHANGED h
       ELSE RollbackReturn(c, h[c], fs, "false")
    /\ UNCHANGED <<fs, temp_files, calls, r, rl, exc, handler, idx>>
    /\ UNCHANGED outside_installer

\* lines 169-180: remove the broken/partial installation if it exists
RollbackRemove(c) ==
    /\ pc[c] = "rb_remove"
    /\ \/ /\ exists(fs, r[c].installed_path)
          /\ \/ /\ fs' = remove_ok(fs, r[c].installed_path)
                /\ h' = [h EXCEPT ![c].rbstale =
                            @ \/ ~exists(fs, r[c].backup_path),
                                  ![c].rbremove = "ok"]
                /\ Goto(c, "rb_restore")
             \/ /\ RollbackReturn(c, [h[c] EXCEPT !.rbremove = "failed"], fs, "false")
                /\ UNCHANGED fs
          /\ UNCHANGED exc
       \/ /\ ~exists(fs, r[c].installed_path)
          /\ Goto(c, "rb_restore")
          /\ UNCHANGED <<fs, exc, h>>
       \/ /\ RollbackRaise(c)
          /\ UNCHANGED fs
    /\ UNCHANGED <<temp_files, calls, r, rl, handler, idx>>
    /\ UNCHANGED outside_installer

\* lines 182-201: move the backup back to the original location
RollbackRestore(c) ==
    /\ pc[c] = "rb_restore"
    /\ \/ /\ exists(fs, r[c].backup_path)
          /\ \/ /\ fs' = restore_backup(fs, r[c])
                /\ RollbackReturn(c, [h[c] EXCEPT !.rbrename = "ok"],
                                  restore_backup(fs, r[c]), "true")
             \/ /\ RollbackReturn(c, [h[c] EXCEPT !.rbrename = "failed"], fs, "false")
                /\ UNCHANGED fs
          /\ UNCHANGED exc
       \/ /\ ~exists(fs, r[c].backup_path)
          /\ RollbackReturn(c, h[c], fs, "false")
          /\ UNCHANGED <<fs, exc>>
       \/ /\ RollbackRaise(c)
          /\ UNCHANGED fs
    /\ UNCHANGED <<temp_files, calls, r, rl, handler, idx>>
    /\ UNCHANGED outside_installer

(***************************************************************************)
(* cleanup, lines 204-228: one step per entry of temp_files_.              *)
(***************************************************************************)
\* cleanup without the clear of line 226
keep(tf) == tf

\* line 226: temp_files_.clear ()
clear(tf) == <<>>

\* one iteration of the loop of lines 212-225
CleanupEntry(c) ==
    /\ pc[c] = "cleanup"
    /\ idx[c] <= Len(temp_files)
    /\ LET p == temp_files[idx[c]]
           seen == [h[c] EXCEPT !.clattempts = @ \cup {p}]
       IN
       \/ /\ exists(fs, p)
          /\ \/ /\ fs' = IF is_directory(fs, p) THEN remove_all_ok(fs, p)
                                                 ELSE remove_ok(fs, p)
                /\ h' = [h EXCEPT ![c] = seen]
             \/ /\ fs' \in (IF is_directory(fs, p) THEN remove_all_failed(fs, p)
                                                    ELSE {fs})
                /\ h' = [h EXCEPT ![c] = [seen EXCEPT !.clfailed = TRUE]]
          /\ idx' = [idx EXCEPT ![c] = @ + 1]
          /\ UNCHANGED <<pc, exc>>
       \/ /\ ~exists(fs, p)
          /\ h' = [h EXCEPT ![c] = seen]
          /\ idx' = [idx EXCEPT ![c] = @ + 1]
          /\ UNCHANGED <<fs, pc, exc>>
       \/ /\ h' = [h EXCEPT ![c] = [seen EXCEPT !.clraised = TRUE]]
          /\ idx' = [idx EXCEPT ![c] = 1]
          /\ Raise(c, "filesystem error")
          /\ UNCHANGED fs
    /\ UNCHANGED <<temp_files, calls, r, rl, handler>>
    /\ UNCHANGED outside_installer

\* lines 226-227, and the co_return r that follows every cleanup call of
\* install (lines 113, 135, 149)
CleanupClear(c) ==
    /\ pc[c] = "cleanup"
    /\ idx[c] > Len(temp_files)
    /\ temp_files' = clear(temp_files)
    /\ idx' = [idx EXCEPT ![c] = 1]
    /\ h' = [h EXCEPT ![c].cleanups = @ + 1, ![c].clattempts = {}]
    /\ Goto(c, "returned")
    /\ UNCHANGED <<fs, calls, r, rl, exc, handler>>
    /\ UNCHANGED outside_installer

(***************************************************************************)
(* install, lines 141-147: the catch handler.                              *)
(***************************************************************************)
Catch(c) ==
    /\ pc[c] = "catch"
    /\ r' = [r EXCEPT ![c].success = FALSE, ![c].error_message = exc[c]]
    /\ handler' = [handler EXCEPT ![c] = TRUE]
    /\ h' = [h EXCEPT ![c].clattempts = {}]
    /\ Goto(c, "cleanup")
    /\ UNCHANGED <<fs, temp_files, calls, rl, exc, idx>>
    /\ UNCHANGED outside_installer

(***************************************************************************)
(* Release discovery: strings, versions, assets.                           *)
(***************************************************************************)
\* releases in one answer of the registry
MaxBatch == 2

\* the number of releases fetch_latest_release asks for
ReleaseLimit == 20

\* std::string::npos
npos == -1

\* std::string::find (s), the position counted from 0
find(n, s) ==
    LET hits == {i \in 0..(Len(n) - Len(s)) : SubSeq(n, i + 1, i + Len(s)) = s}
    IN IF hits = {} THEN npos ELSE CHOOSE i \in hits : \A j \in hits : i <= j

\* std::string::substr (b, l)
substr(n, b, l) == SubSeq(n, b + 1, b + l)

\* std::optional
nullopt == <<>>
optional(x) == <<x>>
has_value(o) == o # nullopt
value(o) == o[1]

Digit ==
    ("0" :> 0) @@ ("1" :> 1) @@ ("2" :> 2) @@ ("3" :> 3) @@ ("4" :> 4) @@
    ("5" :> 5) @@ ("6" :> 6) @@ ("7" :> 7) @@ ("8" :> 8) @@ ("9" :> 9)

\* parse_launcher_version: an optional "v", then a dotted numeric form
\* major.minor.patch (one digit each here) with an optional trailing build or
\* snapshot suffix; a text with no numeric component is rejected
parse_launcher_version(s) ==
    LET t == IF Len(s) > 0 /\ SubSeq(s, 1, 1) = "v" THEN SubSeq(s, 2, Len(s)) ELSE s
        ch(i) == SubSeq(t, i, i)
    IN IF /\ Len(t) >= 5
          /\ \A i \in {1, 3, 5} : ch(i) \in DOMAIN Digit
          /\ ch(2) = "." /\ ch(4) = "."
          /\ Len(t) > 5 => ch(6) \in {"-", "+"}
       THEN optional(<<Digit[ch(1)], Digit[ch(3)], Digit[ch(5)]>>)
       ELSE nullopt

\* launcher_version's operator>: the numeric components left to right
newer(a, b) ==
    \E i \in 1..3 : a[i] > b[i] /\ \A j \in 1..(i - 1) : a[j] = b[j]

\* update_info (): the empty sentinel
update_info ==
    [version |-> <<>>, tag_name |-> "", prerelease |-> FALSE,
     asset_url |-> "", asset_name |-> ""]

\* update_info::empty
empty(u) == u = update_info

\* asset names attached to the releases of the model
AssetNames ==
    { "launcher-1.9.0-x86_64-windows.zip",
      "launcher-2.1.0-x86_64-windows.zip",
      "launcher-2.1.0-x86_64-linux-glibc.tar.xz",
      "launcher-2.1.0-x86_64-linux-glibc.zip",
      "launcher-nightly-x86_64-windows.zip",
      "launcher-x86_64-linux-glibc.tar.xz",
      "iw4x-launcher-2.1.0-x86_64-windows.zip" }

asset(n) == [name |-> n, browser_download_url |-> "https://dl/" \o n]

\* the asset lists of the releases of the model
AssetLists ==
    { <<asset("iw4x-launcher-2.1.0-x86_64-windows.zip"),
        asset("launcher-2.1.0-x86_64-linux-glibc.zip")>>,
      <<asset("launcher-2.1.0-x86_64-linux-glibc.zip"),
        asset("launcher-1.9.0-x86_64-windows.zip"),
        asset("launcher-2.1.0-x86_64-windows.zip"),
        asset("launcher-2.1.0-x86_64-linux-glibc.tar.xz")>>,
      <<asset("launcher-nightly-x86_64-windows.zip"),
        asset("launcher-x86_64-linux-glibc.tar.xz")>> }

Tags == {"v2.0.0", "nightly"}

\* release_type: what the registry answers (a stable release, a prerelease
\* or a draft)
Releases ==
    { x \in [tag_name : Tags, draft : BOOLEAN, prerelease : BOOLEAN,
             assets : AssetLists] : ~(x.draft /\ x.prerelease) }

\* release_type (): the registry's "not found"
NoRelease == [tag_name |-> "", draft |-> FALSE, prerelease |-> FALSE, assets |-> <<>>]

\* the answers get_releases can give: at most MaxBatch releases, newest first
Batches == UNION {[1..k -> Releases] : k \in 0..MaxBatch}

Platforms == {"windows_x64", "linux_x64", "unknown", "other"}

Versions == {<<2, 0, 0>>, <<2, 1, 0>>}

(***************************************************************************)
(* The functions of update_discovery.                                      *)
(***************************************************************************)
\* lines 247-256: the platform token and the extension of a platform
platform_token(p) == IF p = "windows_x64" THEN "x86_64-windows" ELSE "x86_64-linux-glibc"
platform_extension(p) == IF p = "windows_x64" THEN ".zip" ELSE ".tar.xz"

\* an asset accepted on its extension and prefix alone
qualifies_without_token(n, s, e) ==
    find(n, e) # npos /\ find(n, "launcher-") = 0

\* lines 268-270: the three conditions on an asset name
qualifies(n, s, e) ==
    find(n, s) # npos /\ find(n, e) # npos /\ find(n, "launcher-") = 0

\* lines 265-275: the loop returns at the first asset that qualifies
first_of(hits) == CHOOSE i \in hits : \A j \in hits : i <= j

\* find_platform_asset
find_platform_asset(x, p) ==
    IF p = "unknown" THEN nullopt
    ELSE IF p \notin {"windows_x64", "linux_x64"} THEN nullopt
    ELSE LET hits == {i \in 1..Len(x.assets) :
                        qualifies(x.assets[i].name, platform_token(p),
                                  platform_extension(p))}
         IN IF hits = {} THEN nullopt ELSE optional(x.assets[first_of(hits)])

\* lines 296-299
sufs == <<"-x86_64-windows", "-x86_64-linux-glibc">>

\* lines 301-325: the text between the prefix and the first known suffix
\* found, or nullopt
asset_version_text(n) ==
    LET b == Len("launcher-")
        present == {k \in 1..Len(sufs) : find(n, sufs[k]) # npos}
        e == IF present = {} THEN npos ELSE find(n, sufs[first_of(present)])
    IN IF find(n, "launcher-") # 0 THEN nullopt
       ELSE IF e = npos \/ e <= b THEN nullopt
       ELSE optional(substr(n, b, e - b))

\* parse_asset_version
parse_asset_version(n) ==
    IF has_value(asset_version_text(n))
    THEN parse_launcher_version(value(asset_version_text(n)))
    ELSE nullopt

\* the tag parsed first, the asset name only when the tag does not parse
resolve_version_tag_first(n, t) ==
    IF has_value(parse_launcher_version(t)) THEN parse_launcher_version(t)
    ELSE parse_asset_version(n)

\* lines 199-212: the asset name parsed first, the tag only when it fails
resolve_version(n, t) ==
    IF has_value(parse_asset_version(n)) THEN parse_asset_version(n)
    ELSE parse_launcher_version(t)

\* release_to_update_info
release_to_update_info(x, p) ==
    LET a == find_platform_asset(x, p) IN
    IF ~has_value(a) THEN update_info
    ELSE LET ver == resolve_version(value(a).name, x.tag_name) IN
         IF ~has_value(ver) THEN update_info
         ELSE [version |-> value(ver), tag_name |-> x.tag_name,
               prerelease |-> x.prerelease,
               asset_url |-> value(a).browser_download_url,
               asset_name |-> value(a).name]

\* prereleases let through whatever the flag says
passes_ignoring_flag(i, incl) == ~i.draft

\* lines 114-123: drafts are skipped, prereleases unless the flag is set
passes(i, incl) == ~i.draft /\ (incl \/ ~i.prerelease)

\* best match: the first release that passes the filter and converts
select_usable(batch, incl) ==
    LET hits == {k \in 1..Len(batch) :
                   /\ passes(batch[k], incl)
                   /\ ~empty(release_to_update_info(batch[k], platform))}
    IN IF hits = {} THEN 0 ELSE first_of(hits)

\* lines 108-133: the index of the release b points at, 0 for nullptr
select(batch, incl) ==
    LET hits == {k \in 1..Len(batch) : passes(batch[k], incl)}
    IN IF hits = {} THEN 0 ELSE first_of(hits)

\* lines 97-141: fetch_latest_release after the batch has arrived
latest_release(batch, incl, p) ==
    IF Len(batch) = 0 THEN update_info
    ELSE IF select(batch, incl) = 0 THEN update_info
    ELSE release_to_update_info(batch[select(batch, incl)], p)

\* an update offered when the remote version is not older
is_upgrade_or_same(u, cur) == ~newer(cur, u.version)

\* line 76: ui.version > v
is_upgrade(u, cur) == newer(u.version, cur)

\* lines 67-83: check_for_update after fetch_latest_release has returned
checked(u, cur) ==
    IF empty(u) THEN update_info
    ELSE IF is_upgrade(u, cur) THEN u
    ELSE update_info

(***************************************************************************)
(* The public operations of update_discovery. A call runs to its co_await  *)
(* of the registry client; the rest of it runs when the answer arrives.    *)
(***************************************************************************)
DiscoveryInit ==
    /\ platform \in Platforms
    /\ include_prerelease_ \in BOOLEAN
    /\ dpc = "idle"
    /\ op = ""
    /\ current_version = <<>>
    /\ tag = ""
    /\ requests = <<>>
    /\ rs = <<>>
    /\ rel = NoRelease
    /\ latest = update_info
    /\ ret = update_info

\* the request of lines 94-95
get_releases ==
    [api |-> "get_releases", limit |-> ReleaseLimit, outcome |-> "pending"]

\* the request of lines 151-152 (it carries no limit)
get_release_by_tag ==
    [api |-> "get_release_by_tag", limit |-> 0, outcome |-> "pending"]

\* the co_await of the pending request ends: with an answer, or with the
\* exception of the registry client
settled(q, how) == [q EXCEPT ![Len(q)].outcome = how]

\* a failed request answered with the empty sentinel
absorbed == "done"

\* lines 62, 95, 152: no handler around the co_await, the exception of the
\* registry client leaves the coroutine
propagated == "raised"

\* set_include_prerelease
SetIncludePrerelease(b) ==
    /\ dpc \in {"idle", "get_releases", "get_release_by_tag"}
    /\ include_prerelease_' = b
    /\ UNCHANGED <<platform, dpc, op, current_version, tag, requests, rs, rel,
                   latest, ret>>
    /\ UNCHANGED outside_discovery

\* lines 86-95: fetch_latest_release is called and asks for the releases
FetchLatestRelease ==
    /\ dpc = "idle"
    /\ op' = "fetch_latest_release"
    /\ requests' = Append(requests, get_releases)
    /\ dpc' = "get_releases"
    /\ UNCHANGED <<platform, include_prerelease_, current_version, tag, rs,
                   rel, latest, ret>>
    /\ UNCHANGED outside_discovery

\* lines 56-62 and 86-95: check_for_update is called, enters
\* fetch_latest_release, which asks for the releases
CheckForUpdate(cur) ==
    /\ dpc = "idle"
    /\ op' = "check_for_update"
    /\ current_version' = cur
    /\ requests' = Append(requests, get_releases)
    /\ dpc' = "get_releases"
    /\ UNCHANGED <<platform, include_prerelease_, tag, rs, rel, latest, ret>>
    /\ UNCHANGED outside_discovery

\* lines 144-152: fetch_release_by_tag is called and asks for the release
FetchReleaseByTag(t) ==
    /\ dpc = "idle"
    /\ op' = "fetch_release_by_tag"
    /\ tag' = t
    /\ requests' = Append(requests, get_release_by_tag)
    /\ dpc' = "get_release_by_tag"
    /\ UNCHANGED <<platform, include_prerelease_, current_version, rs, rel,
                   latest, ret>>
    /\ UNCHANGED outside_discovery

\* lines 94-141, and 62-83 under check_for_update: the batch arrives
ReleasesReceived ==
    /\ dpc = "get_releases"
    /\ \E batch \in Batches :
         /\ Len(batch) <= requests[Len(requests)].limit
         /\ rs' = batch
         /\ latest' = latest_release(batch, include_prerelease_, platform)
    /\ ret' = IF op = "check_for_update"
              THEN checked(latest', current_version)
              ELSE latest'
    /\ dpc' = "done"
    /\ requests' = settled(requests, "answered")
    /\ UNCHANGED <<platform, include_prerelease_, op, current_version, tag,
                   rel>>
    /\ UNCHANGED outside_discovery

\* line 95: get_releases fails
ReleasesFailed ==
    /\ dpc = "get_releases"
    /\ dpc' = propagated
    /\ requests' = settled(requests, "failed")
    /\ UNCHANGED <<platform, include_prerelease_, op, current_version, tag,
                   rs, rel, latest, ret>>
    /\ UNCHANGED outside_discovery

\* the release looked up by tag put through the filter of the listing
release_by_tag_filtered(x, incl, p) ==
    IF x = NoRelease \/ ~passes(x, incl) THEN update_info
    ELSE release_to_update_info(x, p)

\* lines 154-160: the sentinel for an empty release, else its conversion;
\* the member include_prerelease_ (incl) is not read
release_by_tag(x, incl, p) ==
    IF x = NoRelease THEN update_info ELSE release_to_update_info(x, p)

\* lines 151-160: the release arrives, or the registry's "not found"
ReleaseReceived ==
    /\ dpc = "get_release_by_tag"
    /\ \E x \in {NoRelease} \cup {y \in Releases : y.tag_name = tag} :
         /\ rel' = x
         /\ latest' = release_by_tag(x, include_prerelease_, platform)
    /\ ret' = latest'
    /\ dpc' = "done"
    /\ requests' = settled(requests, "answered")
    /\ UNCHANGED <<platform, include_prerelease_, op, current_version, tag,
                   rs>>
    /\ UNCHANGED outside_discovery

\* line 152: get_release_by_tag fails
ReleaseFailed ==
    /\ dpc = "get_release_by_tag"
    /\ dpc' = propagated
    /\ requests' = settled(requests, "failed")
    /\ UNCHANGED <<platform, include_prerelease_, op, current_version, tag,
                   rs, rel, latest, ret>>
    /\ UNCHANGED outside_discovery

\* the caller has the answer (or the exception); the object is at rest again
DiscoveryReturn ==
    /\ dpc \in {"done", "raised"}
    /\ dpc' = "idle"
    /\ op' = ""
    /\ current_version' = <<>>
    /\ tag' = ""
    /\ requests' = <<>>
    /\ rs' = <<>>
    /\ rel' = NoRelease
    /\ latest' = update_info
    /\ ret' = update_info
    /\ UNCHANGED <<platform, include_prerelease_>>
    /\ UNCHANGED outside_discovery

NextDiscovery ==
    \/ \E b \in BOOLEAN : SetIncludePrerelease(b)
    \/ FetchLatestRelease
    \/ \E cur \in Versions : CheckForUpdate(cur)
    \/ \E t \in Tags : FetchReleaseByTag(t)
    \/ ReleasesReceived
    \/ ReleasesFailed
    \/ ReleaseReceived
    \/ ReleaseFailed
    \/ DiscoveryReturn

(***************************************************************************)
(* extract_launcher: the extractor chosen from the name of the archive.    *)
(***************************************************************************)
\* entries in the extraction directory
MaxEntries == 2

\* tolower on the letters
ToLower ==
    ("A" :> "a") @@ ("B" :> "b") @@ ("C" :> "c") @@ ("D" :> "d") @@ ("E" :> "e") @@
    ("F" :> "f") @@ ("G" :> "g") @@ ("H" :> "h") @@ ("I" :> "i") @@ ("J" :> "j") @@
    ("K" :> "k") @@ ("L" :> "l") @@ ("M" :> "m") @@ ("N" :> "n") @@ ("O" :> "o") @@
    ("P" :> "p") @@ ("Q" :> "q") @@ ("R" :> "r") @@ ("S" :> "s") @@ ("T" :> "t") @@
    ("U" :> "u") @@ ("V" :> "v") @@ ("W" :> "w") @@ ("X" :> "x") @@ ("Y" :> "y") @@
    ("Z" :> "z")

\* lines 415-421: transform (..., tolower) over a string
RECURSIVE lowercase(_)
lowercase(s) ==
    IF Len(s) = 0 THEN ""
    ELSE (IF SubSeq(s, 1, 1) \in DOMAIN ToLower THEN ToLower[SubSeq(s, 1, 1)]
          ELSE SubSeq(s, 1, 1)) \o lowercase(SubSeq(s, 2, Len(s)))

\* fs::path::extension of a file name: from its last dot, empty when there
\* is none, when the only dot leads the name, and for "." and ".."
extension(fn) ==
    LET dots == {i \in 1..Len(fn) : SubSeq(fn, i, i) = "."}
        last == CHOOSE i \in dots : \A j \in dots : j <= i
    IN IF dots = {} \/ fn \in {".", ".."} THEN ""
       ELSE IF last = 1 THEN ""
       ELSE SubSeq(fn, last, Len(fn))

\* line 424: bool t (fn.size () > 7 && fn.substr (fn.size () - 7) == ".tar.xz")
is_tar_xz(fn) ==
    Len(fn) > 7 /\ substr(fn, Len(fn) - 7, 7) = ".tar.xz"

\* lines 414-424 and the if / else if / else of 429-482
choose_extractor(fn) ==
    IF lowercase(extension(fn)) = ".zip" THEN "zip"
    ELSE IF is_tar_xz(fn) THEN "tar"
    ELSE "unsupported"

\* archive file names install can be handed (download_archive names the
\* archive after ui.asset_name)
ArchiveNames ==
    { "launcher-2.1.0-x86_64-windows.zip",
      "launcher-2.1.0-x86_64-windows.ZIP",
      "launcher-2.1.0-x86_64-windows.Zip",
      "launcher-2.1.0-x86_64-linux-glibc.tar.xz",
      "launcher-2.1.0-x86_64-linux-glibc.TAR.XZ",
      "launcher-2.1.0-x86_64-linux-glibc.tar.XZ",
      "launcher-2.1.0-x86_64-linux-glibc.tar.gz",
      "launcher-2.1.0-x86_64-linux-glibc.xz",
      "launcher.tar.xz.zip",
      "launcher",
      "l.xz" }

\* lines 490-495
bns == <<"launcher", "iw4x-launcher", "launcher.exe", "iw4x-launcher.exe">>

\* file names found in an extraction directory
EntryNames ==
    { "launcher", "iw4x-launcher", "launcher.exe", "iw4x-launcher.exe",
      "Launcher", "launcher.sh", "README" }

\* a directory entry: its file name and whether is_regular_file () holds
Entries == [name : EntryNames, regular : BOOLEAN]

\* the extraction directories of the model, in traversal order
Trees == UNION {[1..k -> Entries] : k \in 0..MaxEntries}

\* lines 503-511: n == bn for one of the known names
is_binary_name(n) ==
    \E k \in 1..Len(bns) : n = bns[k]

ExtractInit ==
    /\ ap \in ArchiveNames
    /\ tree = <<>>
    /\ xpc = "dispatch"
    /\ extractor = ""
    /\ pos = 1
    /\ found = 0
    /\ xerr = ""

\* lines 414-428, 465, 478-482: the extractor is chosen, or the format is
\* refused
ChooseExtractor ==
    /\ xpc = "dispatch"
    /\ extractor' = choose_extractor(ap)
    /\ IF choose_extractor(ap) = "unsupported"
       THEN /\ xpc' = "threw"
            /\ xerr' = "unsupported archive format: " \o lowercase(extension(ap))
       ELSE /\ xpc' = "extract"
            /\ UNCHANGED xerr
    /\ UNCHANGED <<ap, tree, pos, found>>
    /\ UNCHANGED outside_extract

\* lines 429-464: the zip reader; it opens the archive and writes the file
\* entries below the extraction directory, or fails
ExtractZip ==
    /\ xpc = "extract" /\ extractor = "zip"
    /\ \/ /\ tree' \in Trees
          /\ xpc' = "scan"
          /\ UNCHANGED xerr
       \/ /\ xpc' = "threw"
          /\ xerr' \in {"failed to open zip archive", "failed to extract: "}
          /\ UNCHANGED tree
    /\ UNCHANGED <<ap, extractor, pos, found>>
    /\ UNCHANGED outside_extract

\* lines 465-477: tar -xJf through system ()
ExtractTar ==
    /\ xpc = "extract" /\ extractor = "tar"
    /\ \/ /\ tree' \in Trees
          /\ xpc' = "scan"
          /\ UNCHANGED xerr
       \/ /\ xpc' = "threw"
          /\ xerr' = "failed to extract tar.xz archive"
          /\ UNCHANGED tree
    /\ UNCHANGED <<ap, extractor, pos, found>>
    /\ UNCHANGED outside_extract

\* lines 497-512: one entry of the recursive scan
ScanEntry ==
    /\ xpc = "scan"
    /\ pos <= Len(tree)
    /\ IF tree[pos].regular /\ is_binary_name(tree[pos].name)
       THEN /\ found' = pos
            /\ xpc' = "returned"
            /\ UNCHANGED pos
       ELSE /\ pos' = pos + 1
            /\ UNCHANGED <<found, xpc>>
    /\ UNCHANGED <<ap, tree, extractor, xerr>>
    /\ UNCHANGED outside_extract

\* lines 513-514: the scan ended without a match
ScanEnd ==
    /\ xpc = "scan"
    /\ pos > Len(tree)
    /\ xpc' = "threw"
    /\ xerr' = "launcher binary not found in archive"
    /\ UNCHANGED <<ap, tree, extractor, pos, found>>
    /\ UNCHANGED outside_extract

NextExtract ==
    \/ ChooseExtractor
    \/ ExtractZip
    \/ ExtractTar
    \/ ScanEntry
    \/ ScanEnd

(***************************************************************************)
(* schedule_restart.                                                       *)
(***************************************************************************)
\* paths schedule_restart is called with
RestartTargets == {T, staging_path(T)}

\* lines 253-261: the lines of launcher_restart.bat, each a command and its
\* argument: @echo off, timeout /t 2 /nobreak > nul, start "" "<n>",
\* del "%~f0"
restart_script(p) ==
    << [cmd |-> "@echo off", arg |-> ""],
       [cmd |-> "timeout /t 2 /nobreak > nul", arg |-> ""],
       [cmd |-> "start", arg |-> p],
       [cmd |-> "del", arg |-> "%~f0"] >>

\* the image the launcher runs before any restart
OldImage == [path |-> "self", argv |-> <<>>]

RestartInit ==
    /\ build \in {"win32", "posix"}
    /\ target \in RestartTargets
    /\ disk \in SUBSET RestartTargets
    /\ rperms \in SUBSET disk
    /\ script \in {<<>>, <<[cmd |-> "stale", arg |-> ""]>>}
    /\ rpc = "exists"
    /\ rret = ""
    /\ spawned = <<>>
    /\ image = OldImage

\* lines 235-239: fs::exists (n), the overload that throws when the status
\* of n cannot be read
RestartExists ==
    /\ rpc = "exists"
    /\ \/ /\ target \in disk
          /\ rpc' = IF build = "win32" THEN "script" ELSE "permissions"
          /\ UNCHANGED rret
       \/ /\ target \notin disk
          /\ rpc' = "done"
          /\ rret' = "false"
       \/ /\ rpc' = "done"
          /\ rret' = "threw"
    /\ UNCHANGED <<build, target, disk, rperms, script, spawned, image>>
    /\ UNCHANGED outside_restart

\* lines 253-261: the ofstream block; the state of the stream is not looked at
RestartWriteScript ==
    /\ rpc = "script"
    /\ \/ script' = restart_script(target)
       \/ UNCHANGED script
    /\ rpc' = "spawn"
    /\ UNCHANGED <<build, target, disk, rperms, rret, spawned, image>>
    /\ UNCHANGED outside_restart

\* lines 263-292: CreateProcessA on cmd.exe /c "<script>"
RestartSpawn ==
    /\ rpc = "spawn"
    /\ \/ /\ spawned' = Append(spawned, [program |-> "cmd.exe /c", arg |-> "launcher_restart.bat"])
          /\ rret' = "true"
       \/ /\ rret' = "false"
          /\ UNCHANGED spawned
    /\ rpc' = "done"
    /\ UNCHANGED <<build, target, disk, rperms, script, image>>
    /\ UNCHANGED outside_restart

\* the permission step with its error code ignored
RestartPermissionsUnchecked ==
    /\ rpc = "permissions"
    /\ rpc' = "exec"
    /\ rperms' \in {rperms \cup {target}, rperms}
    /\ UNCHANGED <<build, target, disk, rret, script, spawned, image>>
    /\ UNCHANGED outside_restart

\* lines 299-309: fs::permissions (n, owner_exec | group_exec | others_exec,
\* add, ec)
RestartPermissions ==
    /\ rpc = "permissions"
    /\ \/ /\ rperms' = rperms \cup {target}
          /\ rpc' = "exec"
          /\ UNCHANGED rret
       \/ /\ rpc' = "done"
          /\ rret' = "false"
          /\ UNCHANGED rperms
    /\ UNCHANGED <<build, target, disk, script, spawned, image>>
    /\ UNCHANGED outside_restart

\* lines 311-321: execl (n, n.filename (), nullptr); it returns only when it
\* failed
RestartExec ==
    /\ rpc = "exec"
    /\ \/ /\ image' = [path |-> target, argv |-> <<target>>]
          /\ rret' = "replaced"
       \/ /\ rret' = "false"
          /\ UNCHANGED image
    /\ rpc' = "done"
    /\ UNCHANGED <<build, target, disk, rperms, script, spawned>>
    /\ UNCHANGED outside_restart

NextRestart ==
    \/ RestartExists
    \/ RestartWriteScript
    \/ RestartSpawn
    \/ RestartPermissions
    \/ RestartExec

(***************************************************************************)
(* proton_manager: parse_version, version_compare, detect_proton_versions. *)
(***************************************************************************)
\* entries in steamapps/common
MaxInstalled == 3

\* the value of a character as unsigned char
Ascii ==
    (" " :> 32) @@ ("!" :> 33) @@ ("#" :> 35) @@ ("$" :> 36) @@ ("%" :> 37) @@ ("&" :> 38) @@
    ("'" :> 39) @@ ("(" :> 40) @@ (")" :> 41) @@ ("*" :> 42) @@ ("+" :> 43) @@ ("," :> 44) @@
    ("-" :> 45) @@ ("." :> 46) @@ ("/" :> 47) @@ ("0" :> 48) @@ ("1" :> 49) @@ ("2" :> 50) @@
    ("3" :> 51) @@ ("4" :> 52) @@ ("5" :> 53) @@ ("6" :> 54) @@ ("7" :> 55) @@ ("8" :> 56) @@
    ("9" :> 57) @@ (":" :> 58) @@ (";" :> 59) @@ ("<" :> 60) @@ ("=" :> 61) @@ (">" :> 62) @@
    ("?" :> 63) @@ ("@" :> 64) @@ ("A" :> 65) @@ ("B" :> 66) @@ ("C" :> 67) @@ ("D" :> 68) @@
    ("E" :> 69) @@ ("F" :> 70) @@ ("G" :> 71) @@ ("H" :> 72) @@ ("I" :> 73) @@ ("J" :> 74) @@
    ("K" :> 75) @@ ("L" :> 76) @@ ("M" :> 77) @@ ("N" :> 78) @@ ("O" :> 79) @@ ("P" :> 80) @@
    ("Q" :> 81) @@ ("R" :> 82) @@ ("S" :> 83) @@ ("T" :> 84) @@ ("U" :> 85) @@ ("V" :> 86) @@
    ("W" :> 87) @@ ("X" :> 88) @@ ("Y" :> 89) @@ ("Z" :> 90) @@ ("[" :> 91) @@ ("]" :> 93) @@
    ("^" :> 94) @@ ("_" :> 95) @@ ("a" :> 97) @@ ("b" :> 98) @@ ("c" :> 99) @@
    ("d" :> 100) @@ ("e" :> 101) @@ ("f" :> 102) @@ ("g" :> 103) @@ ("h" :> 104) @@ ("i" :> 105) @@
    ("j" :> 106) @@ ("k" :> 107) @@ ("l" :> 108) @@ ("m" :> 109) @@ ("n" :> 110) @@ ("o" :> 111) @@
    ("p" :> 112) @@ ("q" :> 113) @@ ("r" :> 114) @@ ("s" :> 115) @@ ("t" :> 116) @@ ("u" :> 117) @@
    ("v" :> 118) @@ ("w" :> 119) @@ ("x" :> 120) @@ ("y" :> 121) @@ ("z" :> 122) @@ ("{" :> 123) @@
    ("|" :> 124) @@ ("}" :> 125) @@ ("~" :> 126)

\* the character of s at position i (from 1), "" outside s
at(s, i) == IF i \in 1..Len(s) THEN SubSeq(s, i, i) ELSE ""

\* the length of the run of characters of the set cs that starts at i
RECURSIVE run(_, _, _)
run(s, i, cs) == IF at(s, i) \in cs THEN 1 + run(s, i + 1, cs) ELSE 0

\* line 160: the regex Proton\s+(\d+\.\d+(?:-\d+)?) matched at position p;
\* the text of its group, "" when it does not match there
match_at(s, p) ==
    LET b == p + 6 + run(s, p + 6, {" "})
        c == b + run(s, b, DOMAIN Digit)
        e == c + 1 + run(s, c + 1, DOMAIN Digit)
        d == IF at(s, e) = "-" THEN run(s, e + 1, DOMAIN Digit) ELSE 0
    IN IF /\ p + 5 <= Len(s) /\ SubSeq(s, p, p + 5) = "Proton"
          /\ b > p + 6 /\ c > b /\ at(s, c) = "." /\ e > c + 1
       THEN SubSeq(s, b, IF d > 0 THEN e + d ELSE e - 1)
       ELSE ""

\* parse_version
parse_version(name) ==
    LET hits == {p \in 1..Len(name) : match_at(name, p) # ""}
    IN IF hits # {} THEN optional(match_at(name, first_of(hits)))
       ELSE IF find(name, "Experimental") # npos THEN optional("experimental")
       ELSE nullopt

\* std::string operator>: lexicographic on the characters
RECURSIVE string_greater(_, _)
string_greater(a, b) ==
    IF Len(a) = 0 THEN FALSE
    ELSE IF Len(b) = 0 THEN TRUE
    ELSE IF at(a, 1) # at(b, 1) THEN Ascii[at(a, 1)] > Ascii[at(b, 1)]
    ELSE string_greater(SubSeq(a, 2, Len(a)), SubSeq(b, 2, Len(b)))

\* the version strings compared alone
version_compare_by_string(a, b) == string_greater(a.version, b.version)

\* a comparison that also holds between equal versions
version_compare_or_equal(a, b) ==
    IF a.experimental /\ ~b.experimental THEN TRUE
    ELSE IF ~a.experimental /\ b.experimental THEN FALSE
    ELSE ~string_greater(b.version, a.version)

\* version_compare
version_compare(a, b) ==
    IF a.experimental /\ ~b.experimental THEN TRUE
    ELSE IF ~a.experimental /\ b.experimental THEN FALSE
    ELSE string_greater(a.version, b.version)

\* directory names found in steamapps/common
ProtonNames ==
    { "Proton 9.0", "Proton 9.0 Beta", "Proton 10.0", "Proton 8.0-5",
      "Proton 8.0-10", "Proton - Experimental", "Proton 9.0 Experimental",
      "Proton Hotfix", "Steamworks Common" }

\* an entry of steamapps/common: a directory with a proton script in it, a
\* directory without one, or a file
CommonEntries ==
    [name : ProtonNames, kind : {"proton"}] \cup
    { [name |-> "Proton 9.0", kind |-> "dir"],
      [name |-> "Proton 10.0", kind |-> "file"] }

\* lines 249-254: the proton_version of a directory
proton_version(name) ==
    [name |-> name,
     experimental |-> find(name, "Experimental") # npos,
     version |-> IF has_value(parse_version(name)) THEN value(parse_version(name))
                 ELSE name]

\* lines 228-256: the entries that pass the three checks, in scan order
probe(entries) ==
    LET counted(e) == e.kind = "proton" /\ find(e.name, "Proton") = 0
        kept == SelectSeq(entries, counted)
    IN [i \in 1..Len(kept) |-> proton_version(kept[i].name)]

\* line 268: what std::sort (r.begin (), r.end (), version_compare) can
\* leave: r permuted so that no element has to come before an earlier one
sorted(q) ==
    { [i \in 1..Len(q) |-> q[f[i]]] : f \in
        { g \in Permutations(1..Len(q)) :
            \A i, j \in 1..Len(q) :
                i < j => ~version_compare(q[g[j]], q[g[i]]) } }

\* the entries of one directory have different names
ProtonInit ==
    /\ common \in { q \in UNION {[1..k -> CommonEntries] : k \in 0..MaxInstalled} :
                      \A i, j \in 1..Len(q) : q[i].name = q[j].name => i = j }
    /\ detected = <<>>
    /\ ppc = "scan"

\* detect_proton_versions: fs::exists (common) may throw; the iteration may
\* end early with a filesystem_error, which is caught; r is sorted
DetectProtonVersions ==
    /\ ppc = "scan"
    /\ \/ /\ ppc' = "threw"
          /\ UNCHANGED detected
       \/ /\ ppc' = "done"
          /\ \E k \in 0..Len(common) :
               detected' \in sorted(probe(SubSeq(common, 1, k)))
    /\ UNCHANGED common
    /\ UNCHANGED outside_proton

NextProton == DetectProtonVersions

(***************************************************************************)
(* extract_launcher, lines 429-464: the zip reader loop.                   *)
(***************************************************************************)
\* s.m_filename of the entries of an archive
ZipNames ==
    { "launcher", "bin/launcher", "a/../launcher", "../launcher",
      "a/../../../T", "/opt/launcher" }

\* an entry: its name, and whether it is a file, a directory, or an entry
\* mz_zip_reader_file_stat fails on
ZipEntries == [name : ZipNames, kind : {"file", "dir", "nostat"}]

\* the components of a path, split at the separators
RECURSIVE split(_)
split(s) ==
    IF Len(s) = 0 THEN <<>>
    ELSE LET k == find(s, "/")
         IN IF k = npos THEN <<s>>
            ELSE IF k = 0 THEN split(SubSeq(s, 2, Len(s)))
            ELSE <<SubSeq(s, 1, k)>> \o split(SubSeq(s, k + 2, Len(s)))

\* fs::path::is_absolute on a POSIX path
is_absolute(s) == Len(s) > 0 /\ SubSeq(s, 1, 1) = "/"

\* line 451, d / s.m_filename: an absolute right-hand side replaces d
path_append(d, n) == IF is_absolute(n) THEN n ELSE d \o "/" \o n

\* the file a path names: the components with every dir/.. pair resolved;
\* a .. that leaves the start of a relative path is kept
RECURSIVE resolve(_, _)
resolve(done, rest) ==
    IF Len(rest) = 0 THEN done
    ELSE IF rest[1] = ".." /\ Len(done) > 0 /\ done[Len(done)] # ".."
         THEN resolve(SubSeq(done, 1, Len(done) - 1), Tail(rest))
         ELSE resolve(Append(done, rest[1]), Tail(rest))

\* the file p names lies below the directory d
inside(d, p) ==
    LET dd == resolve(<<>>, split(d))
        pp == resolve(<<>>, split(p))
    IN /\ is_absolute(p) = is_absolute(d)
       /\ Len(pp) > Len(dd)
       /\ SubSeq(pp, 1, Len(dd)) = dd

ZipInit ==
    /\ zentries \in UNION {[1..k -> ZipEntries] : k \in 0..MaxEntries}
    /\ zi = 0
    /\ zwritten = {}
    /\ zpc = "open"

\* lines 431-436: mz_zip_reader_init_file
ZipOpen ==
    /\ zpc = "open"
    /\ zpc' \in {"loop", "threw"}
    /\ UNCHANGED <<zentries, zi, zwritten>>
    /\ UNCHANGED outside_zip

\* lines 441-461: one turn of the loop over the entries
ZipEntry ==
    /\ zpc = "loop"
    /\ zi < Len(zentries)
    /\ LET s == zentries[zi + 1]
           p == path_append(ExtractDir, s.name)
       IN IF s.kind # "file"
          THEN /\ zi' = zi + 1
               /\ UNCHANGED <<zwritten, zpc>>
          ELSE \/ /\ zwritten' = zwritten \cup {p}
                  /\ zi' = zi + 1
                  /\ UNCHANGED zpc
               \/ /\ zwritten' \in {zwritten, zwritten \cup {p}}
                  /\ zpc' = "threw"
                  /\ UNCHANGED zi
    /\ UNCHANGED zentries
    /\ UNCHANGED outside_zip

\* lines 441 and 463: the loop ends, mz_zip_reader_end
ZipEnd ==
    /\ zpc = "loop"
    /\ zi >= Len(zentries)
    /\ zpc' = "done"
    /\ UNCHANGED <<zentries, zi, zwritten>>
    /\ UNCHANGED outside_zip

NextZip ==
    \/ ZipOpen
    \/ ZipEntry
    \/ ZipEnd

(***************************************************************************)
(* proton_manager::run_ghost_process, lines 351-490: the compatdata        *)
(* directory and the Steam Deck readiness loop.                            *)
(***************************************************************************)
\* line 388: the turns of the loop, one pgrep check each
GhostAttempts == 3

\* line 419: the seconds given to steam to spin up
KickstartWait == 5

\* the loop of line 388 with one turn more
more_attempts_inclusive(i) == i <= GhostAttempts

\* line 388: i < 3
more_attempts(i) == i < GhostAttempts

GhostInit ==
    /\ deck \in BOOLEAN
    /\ compatdata \in {"exists", "missing"}
    /\ gi = 0
    /\ glog = <<>>
    /\ gwaited = 0
    /\ gret = ""
    /\ gpc = "compatdata"

\* where the loop is entered, or left for the exit of line 429
loop_head(i) == IF more_attempts(i) THEN "check" ELSE "exit"

\* lines 362-373: the compatdata directory is there, is created, cannot be
\* created, or fs::exists throws
GhostCompatdata ==
    /\ gpc = "compatdata"
    /\ \/ /\ compatdata = "exists"
          /\ gpc' = IF deck THEN loop_head(0) ELSE "probe"
          /\ UNCHANGED <<compatdata, gret, glog>>
       \/ /\ compatdata = "missing"
          /\ \/ /\ compatdata' = "exists"
                /\ glog' = Append(glog, "create")
                /\ gpc' = IF deck THEN loop_head(0) ELSE "probe"
                /\ UNCHANGED gret
             \/ /\ glog' = Append(glog, "create failed")
                /\ gpc' = "done"
                /\ gret' = "error"
                /\ UNCHANGED compatdata
       \/ /\ gpc' = "done"
          /\ gret' = "threw"
          /\ UNCHANGED <<compatdata, glog>>
    /\ UNCHANGED <<deck, gi, gwaited>>
    /\ UNCHANGED outside_ghost

\* lines 390-394: _pgrep_is_steam_running ()
GhostCheck ==
    /\ gpc = "check"
    /\ glog' = Append(glog, "check")
    /\ \/ /\ gpc' = "done"
          /\ gret' = "steam_running"
       \/ /\ gpc' = "spawn"
          /\ UNCHANGED gret
    /\ UNCHANGED <<deck, compatdata, gi, gwaited>>
    /\ UNCHANGED outside_ghost

\* lines 403-415: bp::child s ("steam"); an exception of the spawn is logged
GhostSpawn ==
    /\ gpc = "spawn"
    /\ glog' \in {Append(glog, "spawn"), Append(glog, "spawn failed")}
    /\ gpc' = "wait"
    /\ UNCHANGED <<deck, compatdata, gi, gwaited, gret>>
    /\ UNCHANGED outside_ghost

\* lines 419-420 and the ++i of line 388: the timer of 5 s ends, or the
\* wait is cancelled and async_wait throws
GhostWait ==
    /\ gpc = "wait"
    /\ \/ /\ glog' = Append(glog, "wait")
          /\ gi' = gi + 1
          /\ gwaited' = gwaited + KickstartWait
          /\ gpc' = loop_head(gi + 1)
          /\ UNCHANGED gret
       \/ /\ gpc' = "done"
          /\ gret' = "threw"
          /\ UNCHANGED <<gi, glog, gwaited>>
    /\ UNCHANGED <<deck, compatdata>>
    /\ UNCHANGED outside_ghost

\* line 429: exit (1)
GhostExit ==
    /\ gpc = "exit"
    /\ gpc' = "done"
    /\ gret' = "exit 1"
    /\ UNCHANGED <<deck, compatdata, gi, glog, gwaited>>
    /\ UNCHANGED outside_ghost

\* lines 434-489: the probe of the standard desktop
GhostProbe ==
    /\ gpc = "probe"
    /\ gpc' = "done"
    /\ gret' \in {"steam_running", "steam_not_running", "error"}
    /\ glog' = Append(glog, "probe")
    /\ UNCHANGED <<deck, compatdata, gi, gwaited>>
    /\ UNCHANGED outside_ghost

NextGhost ==
    \/ GhostCompatdata
    \/ GhostCheck
    \/ GhostSpawn
    \/ GhostWait
    \/ GhostExit
    \/ GhostProbe

(***************************************************************************)
(* Two calls of update_installer::install on one instance, as coroutines   *)
(* of one single-threaded executor (lines 84-146, 204-228, 384-412).       *)
(***************************************************************************)
Tasks == {1, 2}

TaskPaths == {Archive, ExtractDir, Binary}

\* every stage of install taken as a point where the call gives the thread
\* back
suspends_each_stage(l) == l \in {"download", "extract", "replace"}

\* the co_await expressions of install: line 394 awaits the transport and
\* gives the thread back; lines 95 and 101 await a child coroutine, which
\* runs at once on the caller's thread; extract_launcher and
\* replace_launcher hold no co_await
suspends(l) == l = "download"

\* the control points from the first push_back to the return
Registered == {"extract", "scan", "replace", "moving", "rollback",
               "cleanup"}

\* the control points of replace_launcher, rollback and cleanup
Swapping == {"moving", "rollback", "cleanup"}

TasksInit ==
    /\ tpc = [t \in Tasks |-> "idle"]
    /\ running = 0
    /\ tlist = <<>>
    /\ tdisk = [p \in TaskPaths |-> 0]
    /\ tT = "old"
    /\ trobbed = {}

\* the call t may take a step: it holds the thread, or nobody does and the
\* executor picks it
scheduled(t) == running \in {0, t}

\* the thread given back at the download and at the extraction
holder_yielding(t, l) ==
    IF l \in {"download", "extract", "returned"} THEN 0 ELSE t

\* who holds the thread once t has reached l
holder(t, l) == IF suspends(l) \/ l = "returned" THEN 0 ELSE t

\* lines 84-95, 384-394: the call starts and runs up to the co_await of the
\* transport
TaskCall(t) ==
    /\ tpc[t] = "idle"
    /\ scheduled(t)
    /\ tpc' = [tpc EXCEPT ![t] = "download"]
    /\ running' = holder(t, "download")
    /\ UNCHANGED <<tlist, tdisk, tT, trobbed>>
    /\ UNCHANGED outside_tasks

\* the transport writes the archive of t while t waits at line 394
TaskTransport(t) ==
    /\ tpc[t] = "download"
    /\ tdisk[Archive] # t
    /\ t \notin trobbed
    /\ tdisk' = [tdisk EXCEPT ![Archive] = t]
    /\ UNCHANGED <<tpc, running, tlist, tT, trobbed>>
    /\ UNCHANGED outside_tasks

\* lines 394-400, 96: the download is over, the call is resumed and
\* registers the archive; a failed download throws to the handler
TaskDownloaded(t) ==
    /\ tpc[t] = "download"
    /\ scheduled(t)
    /\ \/ /\ tlist' = Append(tlist, [path |-> Archive, by |-> t])
          /\ tpc' = [tpc EXCEPT ![t] = "extract"]
          /\ running' = holder(t, "extract")
       \/ /\ tpc' = [tpc EXCEPT ![t] = "cleanup"]
          /\ running' = holder(t, "cleanup")
          /\ UNCHANGED tlist
    /\ UNCHANGED <<tdisk, tT, trobbed>>
    /\ UNCHANGED outside_tasks

\* lines 404-477: the extraction directory is registered and the archive
\* unpacked; an archive that is gone or not this call's makes it throw
TaskExtract(t) ==
    /\ tpc[t] = "extract"
    /\ scheduled(t)
    /\ tlist' = Append(tlist, [path |-> ExtractDir, by |-> t])
    /\ IF tdisk[Archive] = 0
       THEN /\ tdisk' = [tdisk EXCEPT ![ExtractDir] = t]
            /\ tpc' = [tpc EXCEPT ![t] = "cleanup"]
            /\ running' = holder(t, "cleanup")
       ELSE /\ tdisk' = [tdisk EXCEPT ![ExtractDir] = t, ![Binary] = t]
            /\ tpc' = [tpc EXCEPT ![t] = "scan"]
            /\ running' = holder(t, "scan")
    /\ UNCHANGED <<tT, trobbed>>
    /\ UNCHANGED outside_tasks

\* lines 484-511, 102: the binary is found and registered
TaskScan(t) ==
    /\ tpc[t] = "scan"
    /\ scheduled(t)
    /\ tlist' = Append(tlist, [path |-> Binary, by |-> t])
    /\ tpc' = [tpc EXCEPT ![t] = "replace"]
    /\ running' = holder(t, "replace")
    /\ UNCHANGED <<tdisk, tT, trobbed>>
    /\ UNCHANGED outside_tasks

\* lines 123, 549-566: replace_launcher renames the target to the backup
TaskBackup(t) ==
    /\ tpc[t] = "replace"
    /\ scheduled(t)
    /\ tT' = "missing"
    /\ tpc' = [tpc EXCEPT ![t] = "moving"]
    /\ running' = holder(t, "moving")
    /\ UNCHANGED <<tlist, tdisk, trobbed>>
    /\ UNCHANGED outside_tasks

\* lines 568-611: the staged binary is moved into place, or the move fails
TaskMove(t) ==
    /\ tpc[t] = "moving"
    /\ scheduled(t)
    /\ \/ /\ tT' = "new"
          /\ tpc' = [tpc EXCEPT ![t] = "cleanup"]
          /\ running' = holder(t, "cleanup")
       \/ /\ tpc' = [tpc EXCEPT ![t] = "rollback"]
          /\ running' = holder(t, "rollback")
          /\ UNCHANGED tT
    /\ UNCHANGED <<tlist, tdisk, trobbed>>
    /\ UNCHANGED outside_tasks

\* lines 133, 153-202: the rollback puts the backup back, or fails to
TaskRollback(t) ==
    /\ tpc[t] = "rollback"
    /\ scheduled(t)
    /\ tT' \in {"old", "missing"}
    /\ tpc' = [tpc EXCEPT ![t] = "cleanup"]
    /\ running' = holder(t, "cleanup")
    /\ UNCHANGED <<tlist, tdisk, trobbed>>
    /\ UNCHANGED outside_tasks

\* the paths temp_files_ names
listed == {tlist[k].path : k \in 1..Len(tlist)}

\* the suspended calls whose archive is on the disk, unregistered
waiting_on(p) ==
    {u \in Tasks : p = Archive /\ tpc[u] = "download" /\ tdisk[p] = u}

\* lines 204-228: every listed path is removed and the list cleared; the
\* call returns
TaskCleanup(t) ==
    /\ tpc[t] = "cleanup"
    /\ scheduled(t)
    /\ tdisk' = [p \in TaskPaths |->
                   IF p \in listed \/ (ExtractDir \in listed /\ p = Binary)
                   THEN 0 ELSE tdisk[p]]
    /\ trobbed' = trobbed \cup
                    UNION {waiting_on(p) \ {t} : p \in listed}
    /\ tlist' = <<>>
    /\ tpc' = [tpc EXCEPT ![t] = "returned"]
    /\ running' = holder(t, "returned")
    /\ UNCHANGED tT
    /\ UNCHANGED outside_tasks

NextTasks ==
    \E t \in Tasks :
        \/ TaskCall(t)
        \/ TaskTransport(t)
        \/ TaskDownloaded(t)
        \/ TaskExtract(t)
        \/ TaskScan(t)
        \/ TaskBackup(t)
        \/ TaskMove(t)
        \/ TaskRollback(t)
        \/ TaskCleanup(t)

(***************************************************************************)
(* The specifications: one per component, the others held at rest.         *)
(***************************************************************************)
RestartRest ==
    /\ RestartInit
    /\ build = "posix" /\ target = T /\ disk = {} /\ script = <<>>

ProtonRest == ProtonInit /\ common = <<>>

DiscoveryRest == DiscoveryInit /\ platform = "unknown" /\ include_prerelease_ = FALSE

ExtractRest == ExtractInit /\ ap = "launcher"

ZipRest == ZipInit /\ zentries = <<>>

GhostRest == GhostInit /\ deck = FALSE /\ compatdata = "exists"

TasksRest == TasksInit

OthersRest == ZipRest /\ GhostRest /\ TasksRest

Init ==
    InstallerInit /\ DiscoveryRest /\ ExtractRest /\ RestartRest /\ ProtonRest /\ OthersRest

Next ==
    \E c \in Frames :
        \/ InstallBegin(c)
        \/ DownloadArchive(c)
        \/ ExtractPrepare(c)
        \/ ExtractArchive(c)
        \/ FindBinary(c)
        \/ CheckBinary(c)
        \/ ReplaceStage(c)
        \/ ReplaceExists(c)
        \/ ReplaceRemoveStale(c)
        \/ ReplaceBackupRename(c)
        \/ ReplaceBackupCopy(c)
        \/ ReplaceDropStaging(c)
        \/ ReplaceMove(c)
        \/ ReplaceCopy(c)
        \/ ReplaceRemoveStaging(c)
        \/ ReplaceRestore(c)
        \/ AfterReplace(c)
        \/ CallerRollback(c)
        \/ RollbackCheck(c)
        \/ RollbackRemove(c)
        \/ RollbackRestore(c)
        \/ CleanupEntry(c)
        \/ CleanupClear(c)
        \/ Catch(c)

Spec == Init /\ [][Next]_vars

InitDiscovery ==
    DiscoveryInit /\ InstallerRest /\ ExtractRest /\ RestartRest /\ ProtonRest /\ OthersRest

SpecDiscovery == InitDiscovery /\ [][NextDiscovery]_vars

InitExtract ==
    ExtractInit /\ InstallerRest /\ DiscoveryRest /\ RestartRest /\ ProtonRest /\ OthersRest

SpecExtract == InitExtract /\ [][NextExtract]_vars

InitRestart ==
    RestartInit /\ InstallerRest /\ DiscoveryRest /\ ExtractRest /\ ProtonRest /\ OthersRest

SpecRestart == InitRestart /\ [][NextRestart]_vars

InitProton ==
    ProtonInit /\ InstallerRest /\ DiscoveryRest /\ ExtractRest /\ RestartRest /\ OthersRest

SpecProton == InitProton /\ [][NextProton]_vars

InitRest ==
    InstallerRest /\ DiscoveryRest /\ ExtractRest /\ RestartRest /\ ProtonRest

InitZip == ZipInit /\ InitRest /\ GhostRest /\ TasksRest

SpecZip == InitZip /\ [][NextZip]_vars

InitGhost == GhostInit /\ InitRest /\ ZipRest /\ TasksRest

SpecGhost == InitGhost /\ [][NextGhost]_vars

InitTasks == TasksInit /\ InitRest /\ ZipRest /\ GhostRest

SpecTasks == InitTasks /\ [][NextTasks]_vars

TypeOK ==
    /\ fs \in [Paths -> STRING]
    /\ calls \in 0..MaxCalls
    /\ \A c \in Frames : r[c].success \in BOOLEAN

(***************************************************************************)
(* Properties.                                                             *)
(***************************************************************************)
\* the backup of this call exists: T was renamed or copied to T.backup
BackupMade(c) == h[c].backup \in {"rename", "copy"}

\* step 3 failed both ways
MoveFailedBothWays(c) == h[c].move = "failed" /\ h[c].copy = "failed"

\* C1: when step 3 failed both ways after a backup was recorded, and the
\* emergency restore and the rollback of install both ran with no rename of
\* the backup failing, T holds the original bytes once install has returned.
C1_OriginalRestoredAfterInstall ==
    \A c \in Frames :
        ( /\ pc[c] = "returned"
          /\ h[c].rbcaller = 0
          /\ BackupMade(c)
          /\ MoveFailedBothWays(c)
          /\ h[c].restore = "ok"
          /\ h[c].rb \in {"true", "false"}
          /\ h[c].rbrename # "failed" )
        => fs[T] = h[c].T0

\* C2: rollback never removes the file at installed_path when there is no
\* file at backup_path to move back.
C2_RollbackNeverStale ==
    \A c \in Frames : ~h[c].rbstale

\* C3: in every result of replace_launcher, backup_path is non-empty iff
\* this call renamed or copied T to T.backup, and then it is T.backup.
C3_BackupPathIffBackupMade ==
    \A c \in Frames :
        pc[c] = "replaced" =>
            /\ r[c].backup_path # EmptyPath <=> BackupMade(c)
            /\ r[c].backup_path \in {EmptyPath, backup_path(T)}

C3_Witness ==
    \E c \in Frames :
        /\ pc[c] = "replaced"
        /\ h[c].backup = "copy"
        /\ ~r[c].success
        /\ r[c].backup_path = backup_path(T)

\* C4: when the backup step failed both ways, replace_launcher returns
\* failure with backup_path empty, the rollback of install returns false and
\* leaves the filesystem as it found it, and T keeps the bytes it had when
\* install was called.
C4_BackupFailureLeavesOriginal ==
    \A c \in Frames :
        h[c].backup = "failed" =>
            /\ fs[T] = h[c].T0
            /\ pc[c] = "replaced" =>
                   ~r[c].success /\ r[c].backup_path = EmptyPath
            /\ pc[c] \notin {"rl_drop_staging", "replaced", "rb_check"} =>
                   h[c].rb = "false" /\ h[c].rbend = h[c].rbfs

C4_Witness ==
    \E c \in Frames :
        /\ pc[c] = "returned"
        /\ h[c].backup = "failed"
        /\ h[c].rb = "false"
        /\ h[c].T0 = "old"
        /\ fs[T] = "old"

\* C5: no exception escapes install.
C5_NoExceptionEscapes ==
    \A c \in Frames : pc[c] # "threw"

\* C6: when an install call that entered the pipeline has returned, cleanup
\* has run to its end and the temporary-artifact set is empty.
C6_CleanupBeforeReturn ==
    \A c \in Frames :
        pc[c] = "returned" /\ h[c].entered =>
            h[c].cleanups >= 1 /\ temp_files = <<>>

C6_Witness ==
    \E c \in Frames :
        /\ pc[c] = "returned"
        /\ h[c].entered
        /\ h[c].rb = "false"
        /\ handler[c] = FALSE
        /\ h[c].cleanups = 1
        /\ temp_files = <<>>

\* C7: cleanup never raises, and a cleanup call that has ended has left the
\* temporary-artifact set empty.
C7_CleanupNeverRaises ==
    \A c \in Frames :
        /\ ~h[c].clraised
        /\ pc[c] \in {"catch", "threw", "returned"} /\ h[c].entered
               /\ (h[c].clraised \/ h[c].cleanups > 0)
             => temp_files = <<>>

\* C8: with every deletion succeeding, a download that failed after writing
\* the archive file, or an extraction that failed after the directory was
\* made, leaves neither on disk once install has returned.
C8_ArtifactsRegisteredBeforeFailure ==
    \A c \in Frames :
        pc[c] = "returned" /\ ~h[c].clfailed /\ ~h[c].clraised =>
            /\ h[c].dlpartial => ~exists(fs, Archive)
            /\ h[c].xfailed => ~exists(fs, ExtractDir)

\* C9: a successful install over an existing T returns success with
\* installed_path = T and backup_path = T.backup, T holds the new binary and
\* T.backup, after cleanup, the bytes T had before the call.
C9_SuccessfulInstall ==
    \A c \in Frames :
        ( /\ pc[c] = "returned"
          /\ h[c].rbcaller = 0
          /\ r[c].success
          /\ h[c].T0 # Absent )
        => /\ r[c].installed_path = T
           /\ r[c].backup_path = backup_path(T)
           /\ h[c].cleanups >= 1
           /\ fs[T] = h[c].nb
           /\ fs[backup_path(T)] = h[c].T0

C9_Witness ==
    \E c \in Frames :
        /\ pc[c] = "returned"
        /\ r[c].success
        /\ h[c].T0 = "old"
        /\ h[c].backup = "rename"
        /\ h[c].clattempts = {}
        /\ h[c].cleanups = 1
        /\ fs[T] = NewBinary(1)
        /\ fs[backup_path(T)] = "old"

\* C10: when the rename of T.new to T fails and the copy fallback succeeds,
\* replace_launcher reports success, T holds the new binary and the backup
\* this call made (by rename or by copy) is kept.
C10_CopyFallbackInstalls ==
    \A c \in Frames :
        pc[c] = "replaced" /\ h[c].move = "failed" /\ h[c].copy = "ok" =>
            /\ r[c].success
            /\ fs[T] = h[c].nb
            /\ BackupMade(c) =>
                   /\ r[c].backup_path = backup_path(T)
                   /\ fs[backup_path(T)] = h[c].T0

C10_Witness ==
    \E c \in Frames :
        /\ pc[c] = "replaced"
        /\ h[c].move = "failed"
        /\ h[c].copy = "ok"
        /\ h[c].backup = "copy"
        /\ r[c].success
        /\ fs[T] = NewBinary(h[c].call)
        /\ fs[backup_path(T)] = "old"

\* the other case of C10: the backup was made by rename, T absent at step 3
C10_RenamedBackupCase ==
    \E c \in Frames :
        /\ pc[c] = "replaced"
        /\ h[c].move = "failed"
        /\ h[c].copy = "ok"
        /\ h[c].backup = "rename"
        /\ r[c].success

\* C11: rollback called on the result of a successful install over an
\* existing T, with its remove and rename succeeding, returns true, leaves T
\* with the bytes it had before install and no file at T.backup.
C11_RollbackRoundTrip ==
    \A c \in Frames :
        ( /\ pc[c] = "returned"
          /\ r[c].success
          /\ h[c].T0 # Absent
          /\ h[c].rbcaller = 1
          /\ h[c].rbc \in {"true", "false"}
          /\ h[c].rbremove # "failed"
          /\ h[c].rbrename # "failed" )
        => /\ h[c].rbc = "true"
           /\ h[c].rbremove = "ok"
           /\ h[c].rbfs[T] = h[c].nb
           /\ fs[T] = h[c].T0
           /\ fs[backup_path(T)] = Absent

C11_Witness ==
    \E c \in Frames :
        /\ pc[c] = "returned"
        /\ r[c].success
        /\ h[c].T0 = "old"
        /\ h[c].rbcaller = 1
        /\ h[c].rbc = "true"
        /\ h[c].rbfs[T] = NewBinary(1)
        /\ fs[T] = "old"
        /\ fs[backup_path(T)] = Absent

\* C12: two results of install whose swap failed, one returned after the
\* rollback succeeded and one after it failed, are different results.
C12_RollbackFailureSurfaced ==
    \A c \in Frames :
        ( /\ pc[c] = "returned"
          /\ h[c].rb \in {"true", "false"}
          /\ h[c].prev.rb \in {"true", "false"}
          /\ h[c].rb # h[c].prev.rb )
        => r[c] # h[c].prev.r

(***************************************************************************)
(* Release discovery.                                                      *)
(***************************************************************************)
\* a call of fetch_latest_release or check_for_update has its answer
LatestDone ==
    dpc = "done" /\ op \in {"fetch_latest_release", "check_for_update"}

\* s occurs in n
Contains(n, s) ==
    \E i \in 1..(Len(n) - Len(s) + 1) : SubSeq(n, i, i + Len(s) - 1) = s

\* C13: check_for_update returns a non-empty update_info exactly when
\* fetch_latest_release produced a non-empty one whose version is strictly
\* greater than current_version, and then it is that info; in every other
\* case it returns the empty sentinel.
C13_UpdateOnlyIfNewer ==
    (dpc = "done" /\ op = "check_for_update") =>
        /\ (~empty(ret)) <=>
              (~empty(latest) /\ newer(latest.version, current_version))
        /\ ~empty(ret) => ret = latest
        /\ empty(ret) => ret = update_info

C13_Witness ==
    /\ dpc = "done" /\ op = "check_for_update"
    /\ ~empty(ret)
    /\ ret.version = <<2, 1, 0>> /\ current_version = <<2, 0, 0>>
    /\ ret.asset_name = "launcher-2.1.0-x86_64-linux-glibc.tar.xz"

\* the remote version equals the current one: nothing is offered
C13_UpToDate ==
    /\ dpc = "done" /\ op = "check_for_update"
    /\ ~empty(latest) /\ latest.version = current_version /\ empty(ret)

\* C14: what fetch_latest_release produces comes from the first release of
\* the batch that is no draft and, unless include_prerelease is set, no
\* prerelease; with include_prerelease unset it is never a prerelease; when
\* the batch is empty or no release passes, it is the empty sentinel.
C14_ReleaseFilter ==
    LatestDone =>
        LET ok(k) == ~rs[k].draft /\ (include_prerelease_ \/ ~rs[k].prerelease)
        IN /\ ~empty(latest) =>
                \E k \in 1..Len(rs) :
                    /\ ok(k)
                    /\ \A j \in 1..(k - 1) : ~ok(j)
                    /\ latest = release_to_update_info(rs[k], platform)
                    /\ latest.prerelease = rs[k].prerelease
           /\ (~include_prerelease_ /\ ~empty(latest)) => ~latest.prerelease
           /\ (\A k \in 1..Len(rs) : ~ok(k)) => empty(latest)
           /\ op = "fetch_latest_release" => ret = latest

C14_Witness ==
    /\ LatestDone /\ ~include_prerelease_ /\ Len(rs) = 2
    /\ ~rs[1].draft /\ rs[1].prerelease
    /\ ~empty(release_to_update_info(rs[1], platform))
    /\ ~rs[2].draft /\ ~rs[2].prerelease
    /\ ~empty(latest) /\ latest = release_to_update_info(rs[2], platform)

\* C15: only the first release that passes the filter is considered: when
\* it has no platform asset or no parsable version the answer is the empty
\* sentinel, whatever the releases after it are.
C15_FirstMatchOnly ==
    LatestDone =>
        \A k \in 1..Len(rs) :
            ( /\ ~rs[k].draft /\ (include_prerelease_ \/ ~rs[k].prerelease)
              /\ \A j \in 1..(k - 1) :
                    rs[j].draft \/ (~include_prerelease_ /\ rs[j].prerelease)
              /\ empty(release_to_update_info(rs[k], platform)) )
            => empty(latest) /\ empty(ret)

C15_Witness ==
    /\ LatestDone /\ Len(rs) = 2
    /\ ~rs[1].draft /\ ~rs[1].prerelease
    /\ empty(release_to_update_info(rs[1], platform))
    /\ ~rs[2].draft /\ ~rs[2].prerelease
    /\ ~empty(release_to_update_info(rs[2], platform))
    /\ empty(latest) /\ empty(ret)

\* the releases the call received
Received == {rs[k] : k \in 1..Len(rs)} \cup (IF rel = NoRelease THEN {} ELSE {rel})

\* the asset names of the model that have the prefix launcher- and contain
\* the token and the extension of a supported platform
Qualifying ==
    [p \in {"windows_x64", "linux_x64"} |->
        LET s == IF p = "windows_x64" THEN "x86_64-windows" ELSE "x86_64-linux-glibc"
            e == IF p = "windows_x64" THEN ".zip" ELSE ".tar.xz"
        IN {n \in AssetNames : /\ Len(n) >= 9 /\ SubSeq(n, 1, 9) = "launcher-"
                               /\ Contains(n, s) /\ Contains(n, e)}]

\* C16: the asset find_platform_asset returns for a release has the prefix
\* launcher- and contains the token and the extension of the platform
\* (x86_64-windows and .zip, x86_64-linux-glibc and .tar.xz), and is the
\* first asset of the release that does; the linux-glibc .zip is never
\* returned on Windows; on any other platform nothing is returned.
C16_PlatformAsset ==
    dpc = "done" =>
        \A x \in Received :
            LET a == find_platform_asset(x, platform)
                good(k) == x.assets[k].name \in Qualifying[platform]
            IN IF platform \notin {"windows_x64", "linux_x64"}
               THEN ~has_value(a)
               ELSE /\ has_value(a) =>
                         \E k \in 1..Len(x.assets) :
                             /\ value(a) = x.assets[k]
                             /\ good(k)
                             /\ \A j \in 1..(k - 1) : ~good(j)
                    /\ ~has_value(a) => \A k \in 1..Len(x.assets) : ~good(k)
                    /\ (has_value(a) /\ platform = "windows_x64") =>
                         value(a).name # "launcher-2.1.0-x86_64-linux-glibc.zip"

C16_Witness ==
    /\ dpc = "done" /\ platform = "windows_x64"
    /\ \E x \in Received :
            /\ x.assets[1].name = "launcher-2.1.0-x86_64-linux-glibc.zip"
            /\ has_value(find_platform_asset(x, platform))
            /\ value(find_platform_asset(x, platform)) = x.assets[2]
            /\ latest.asset_name = x.assets[2].name

\* the release a finished call converted, if it converted one
Converted ==
    IF op = "fetch_release_by_tag"
    THEN (IF rel = NoRelease THEN {} ELSE {rel})
    ELSE (IF select(rs, include_prerelease_) = 0 THEN {}
          ELSE {rs[select(rs, include_prerelease_)]})

\* C17: the version of a returned update_info is the one parsed from the
\* text of the asset name between launcher- and the platform suffix when
\* that parses, and the one parsed from the release tag only when it does
\* not; a release of which neither parses gives the empty sentinel, so no
\* operation returns an update_info whose version is not a parsed one.
C17_VersionResolution ==
    dpc = "done" =>
        /\ ~empty(latest) =>
              LET fromasset == IF has_value(asset_version_text(latest.asset_name))
                               THEN parse_launcher_version(
                                        value(asset_version_text(latest.asset_name)))
                               ELSE nullopt
                  fromtag == parse_launcher_version(latest.tag_name)
              IN /\ has_value(fromasset) => latest.version = value(fromasset)
                 /\ ~has_value(fromasset) =>
                        has_value(fromtag) /\ latest.version = value(fromtag)
        /\ \A x \in Converted :
              LET a == find_platform_asset(x, platform)
              IN ( /\ has_value(a)
                   /\ ~has_value(parse_asset_version(value(a).name))
                   /\ ~has_value(parse_launcher_version(x.tag_name)) )
                 => empty(latest)
        /\ ~empty(ret) => ret = latest /\ ret.version \in Seq(0..9) /\ Len(ret.version) = 3

C17_Witness ==
    /\ dpc = "done" /\ ~empty(ret)
    /\ ret.asset_name = "launcher-2.1.0-x86_64-linux-glibc.tar.xz"
    /\ ret.tag_name = "v2.0.0"
    /\ ret.version = <<2, 1, 0>>

\* the tag is parsed when the asset name gives no version
C17_TagFallback ==
    /\ dpc = "done" /\ ~empty(ret)
    /\ ret.asset_name = "launcher-nightly-x86_64-windows.zip"
    /\ ret.version = <<2, 0, 0>>

\* C18: a finished call of fetch_latest_release or check_for_update has
\* issued exactly one get_releases request, with limit 20; it ended with
\* the error exactly when that request failed, and with an update_info
\* (the empty sentinel included) exactly when the request was answered.
C18_OneRequestFailurePropagates ==
    (dpc \in {"done", "raised"} /\ op \in {"fetch_latest_release", "check_for_update"}) =>
        /\ Len(requests) = 1
        /\ requests[1].api = "get_releases" /\ requests[1].limit = 20
        /\ requests[1].outcome \in {"answered", "failed"}
        /\ requests[1].outcome = "failed" <=> dpc = "raised"
        /\ dpc = "raised" => ret = update_info /\ latest = update_info

C18_Witness ==
    /\ dpc = "raised" /\ op = "check_for_update"
    /\ Len(requests) = 1 /\ requests[1].outcome = "failed"

\* the four outcomes that are no error: an answered request, the empty
\* sentinel returned
C18_SentinelNotRaised ==
    /\ dpc = "done" /\ op = "check_for_update" /\ empty(ret)
    /\ requests[1].outcome = "answered"

(***************************************************************************)
(* Extraction.                                                             *)
(***************************************************************************)
\* s ends with the lowercase text t, letter case ignored
EndsWithIgnoringCase(s, t) ==
    Len(s) >= Len(t) /\ lowercase(SubSeq(s, Len(s) - Len(t) + 1, Len(s))) = t

\* C19: once extract_launcher has chosen, an archive whose name ends in
\* .zip in any letter case has the zip extractor, one whose name ends in
\* .tar.xz in any letter case has the tar extractor, and any other name
\* made extract_launcher throw the unsupported-archive-format error.
C19_ExtractorByExtension ==
    xpc # "dispatch" =>
        /\ EndsWithIgnoringCase(ap, ".zip") => extractor = "zip"
        /\ EndsWithIgnoringCase(ap, ".tar.xz") => extractor = "tar"
        /\ (~EndsWithIgnoringCase(ap, ".zip") /\ ~EndsWithIgnoringCase(ap, ".tar.xz"))
             => /\ extractor = "unsupported" /\ xpc = "threw"
                /\ SubSeq(xerr, 1, 27) = "unsupported archive format:"

\* the scan of lines 497-514 on its own: the entry returned is the first
\* regular file with one of the four names, and the scan fails exactly when
\* the tree has none
ScanReturnsFirstBinary ==
    LET hit(k) == tree[k].regular /\ tree[k].name \in
                      {"launcher", "iw4x-launcher", "launcher.exe", "iw4x-launcher.exe"}
    IN /\ xpc = "returned" =>
            /\ found \in 1..Len(tree) /\ hit(found)
            /\ \A j \in 1..(found - 1) : ~hit(j)
       /\ (xpc = "threw" /\ xerr = "launcher binary not found in archive") =>
            \A k \in 1..Len(tree) : ~hit(k)
       /\ (xpc = "threw" /\ extractor \in {"zip", "tar"} /\ pos > 1) =>
            xerr = "launcher binary not found in archive"

\* C20: an install call whose extraction found none of the known binary
\* names ends by returning a failed update_result.
C20_NotFoundFailsInstall ==
    \A c \in Frames :
        ( /\ pc[c] \in {"returned", "threw"}
          /\ h[c].entered
          /\ r[c].error_message = "launcher binary not found in archive" )
        => pc[c] = "returned" /\ ~r[c].success

\* C21: schedule_restart with a target that is not on disk returns false and
\* has attempted nothing: the restart script is not written, no process is
\* spawned, the permission bits of the target are not changed and the
\* process image is not replaced.
C21_MissingTargetNotAttempted ==
    (rpc = "done" /\ target \notin disk) =>
        /\ rret = "false"
        /\ script # restart_script(target)
        /\ spawned = <<>>
        /\ target \notin rperms
        /\ image = OldImage

\* the stage of install a control point belongs to: 1 download, 2 extract
\* (up to the check of the extracted binary), 3 replace, 4 rollback, 5 the
\* handler, cleanup and the return
stage_of(l) ==
    CASE l = "download" -> 1
      [] l \in {"extract", "unpack", "find_binary", "check_binary"} -> 2
      [] l \in {"rl_stage", "rl_exists", "rl_remove_stale", "rl_backup_rename",
                "rl_backup_copy", "rl_drop_staging", "rl_move", "rl_copy",
                "rl_remove_staging", "rl_restore", "replaced"} -> 3
      [] l \in {"rb_check", "rb_remove", "rb_restore"} -> 4
      [] OTHER -> 5

\* C22: within one call of install the stages run in the order download,
\* extract, replace: extraction starts only from a download that completed
\* and left the archive, replace_launcher is entered only from the check
\* that found the extracted binary on disk, the rollback of install starts
\* only from a replace_launcher result with success false, and no stage is
\* entered a second time or left for an earlier one.
C22_StagesInOrder ==
    [][\A c \in Frames :
         pc'[c] # pc[c] =>
            /\ pc'[c] = "download" => pc[c] \in Inactive
            /\ pc'[c] = "extract" =>
                   /\ pc[c] = "download"
                   /\ exists(fs', Archive)
                   /\ exc'[c] = ""
            /\ pc'[c] = "rl_stage" =>
                   /\ pc[c] = "check_binary"
                   /\ exists(fs', Binary)
                   /\ Binary = temp_files[Len(temp_files)]
            /\ (pc'[c] = "rb_check" /\ ~h'[c].incaller) =>
                   pc[c] = "replaced" /\ ~r[c].success
            /\ pc[c] \notin Inactive =>
                   /\ stage_of(pc'[c]) >= stage_of(pc[c])
                   /\ stage_of(pc'[c]) > stage_of(pc[c]) =>
                          pc'[c] \notin {"unpack", "find_binary", "check_binary",
                                         "rl_exists", "rl_remove_stale",
                                         "rl_backup_rename", "rl_backup_copy",
                                         "rl_drop_staging", "rl_move", "rl_copy",
                                         "rl_remove_staging", "rl_restore",
                                         "replaced", "rb_remove", "rb_restore"}
    ]_vars

C22_Witness ==
    \E c \in Frames :
        /\ pc[c] = "returned"
        /\ h[c].stage = "ok"
        /\ h[c].rb \in {"true", "false"}
        /\ h[c].rbcaller = 0

\* two versions with the same experimental flag and the same version string
same_version(a, b) == a.experimental = b.experimental /\ a.version = b.version

\* the versions detect_proton_versions returned
Detected == {detected[i] : i \in 1..Len(detected)}

\* C23: version_compare is a strict total order on the versions taken as
\* (experimental flag, version string): of a before b, a same as b, b before
\* a exactly one holds, and a before b and b before c give a before c.
C23_StrictTotalOrder ==
    ppc = "done" =>
        /\ \A a, b \in Detected :
             /\ version_compare(a, b) \/ same_version(a, b) \/ version_compare(b, a)
             /\ ~(version_compare(a, b) /\ same_version(a, b))
             /\ ~(version_compare(a, b) /\ version_compare(b, a))
        /\ \A a, b, c \in Detected :
             (version_compare(a, b) /\ version_compare(b, c)) => version_compare(a, c)

C23_Witness ==
    /\ ppc = "done"
    /\ Len(detected) = 3
    /\ same_version(detected[2], detected[3])
    /\ detected[2].name # detected[3].name
    /\ version_compare(detected[1], detected[2])
    /\ ~detected[1].experimental

\* C24: an experimental version comes before every version that is not
\* experimental, whatever their version strings: version_compare holds from
\* the experimental one to the other and not back, and in the list
\* detect_proton_versions returns no experimental entry follows an entry
\* that is not experimental.
C24_ExperimentalFirst ==
    ppc = "done" =>
        /\ \A a, b \in Detected :
             (a.experimental /\ ~b.experimental) =>
                 version_compare(a, b) /\ ~version_compare(b, a)
        /\ \A i, j \in 1..Len(detected) :
             (detected[i].experimental /\ ~detected[j].experimental) => i < j

C24_Witness ==
    /\ ppc = "done"
    /\ Len(detected) = 3
    /\ detected[1].experimental
    /\ ~detected[2].experimental
    /\ string_greater(detected[2].version, detected[1].version)
    /\ detected[1] # proton_version(common[1].name)

\* the number a string of digits writes
RECURSIVE number(_)
number(s) ==
    IF Len(s) = 0 THEN 0
    ELSE 10 * number(SubSeq(s, 1, Len(s) - 1)) + Digit[at(s, Len(s))]

\* the numeric components of a version string from position i on, left to
\* right: 8.0-10 has the components 8, 0, 10
RECURSIVE components(_, _)
components(s, i) ==
    IF i > Len(s) THEN <<>>
    ELSE LET n == run(s, i, DOMAIN Digit)
         IN IF n = 0 THEN components(s, i + 1)
            ELSE <<number(SubSeq(s, i, i + n - 1))>> \o components(s, i + n)

\* x above y, the components compared left to right as numbers
RECURSIVE above(_, _)
above(x, y) ==
    IF Len(x) = 0 THEN FALSE
    ELSE IF Len(y) = 0 THEN TRUE
    ELSE IF x[1] # y[1] THEN x[1] > y[1]
    ELSE above(Tail(x), Tail(y))

\* C25: two versions with the same experimental flag are ordered by their
\* numeric components compared left to right as numbers (10.0 before 9.0,
\* 8.0-10 before 8.0-5), and by the whole strings only when the components
\* are equal.
C25_NumericComponents ==
    ppc = "done" =>
        \A a, b \in Detected :
            a.experimental = b.experimental =>
                LET x == components(a.version, 1)
                    y == components(b.version, 1)
                IN version_compare(a, b) =
                       IF x # y THEN above(x, y)
                       ELSE string_greater(a.version, b.version)

\* C26: in a sequence of install calls that do not overlap, the temporary-
\* artifact set is empty when a call starts, be it a call that enters the
\* pipeline or one rejected for invalid update info, and the result of the
\* call starts out empty.
C26_TempFilesScopedToCall ==
    \A c \in Frames :
        /\ pc[c] = "download" => temp_files = <<>> /\ r[c] = update_result
        /\ (pc[c] = "returned" /\ ~h[c].entered) => temp_files = <<>>

\* C27: fetch_release_by_tag returns the empty sentinel when the registry
\* has no release with the tag, and otherwise the conversion of the release
\* it got, whatever the draft and prerelease flags of the release and
\* whatever include_prerelease is: the result is empty exactly when the
\* release has no asset for the platform or no version can be parsed, and
\* else it carries the tag, the prerelease flag and the platform asset of
\* the release.
C27_ByTagBypassesFilter ==
    (dpc = "done" /\ op = "fetch_release_by_tag") =>
        /\ rel = NoRelease => ret = update_info
        /\ rel # NoRelease =>
             LET a == find_platform_asset(rel, platform)
                 parsed == has_value(a) /\
                           has_value(resolve_version(value(a).name, rel.tag_name))
             IN /\ rel.tag_name = tag
                /\ empty(ret) <=> ~parsed
                /\ empty(ret) => ret = update_info
                /\ parsed =>
                     /\ ret.tag_name = rel.tag_name
                     /\ ret.prerelease = rel.prerelease
                     /\ ret.asset_name = value(a).name
                     /\ ret.asset_url = value(a).browser_download_url
                     /\ ret.version = value(resolve_version(value(a).name, rel.tag_name))

C27_Witness ==
    /\ dpc = "done" /\ op = "fetch_release_by_tag"
    /\ rel # NoRelease
    /\ rel.draft
    /\ ~include_prerelease_
    /\ ~empty(ret)
    /\ ret.tag_name = tag

\* the tag looked up is the tag of a prerelease while prereleases are off
C27_PrereleaseByTag ==
    /\ dpc = "done" /\ op = "fetch_release_by_tag"
    /\ rel # NoRelease /\ rel.prerelease /\ ~include_prerelease_
    /\ ~empty(ret)

\* C28: when the copy of the new binary to T.new fails, replace_launcher
\* returns with success false and an empty backup_path and has left T and
\* T.backup as they were; the rollback install then runs returns false and
\* leaves every path as it found it.
C28_StagingFailureTouchesNothing ==
    /\ [][\A c \in Frames :
            (pc[c] = "rl_stage" /\ pc'[c] = "replaced" /\ h'[c].stage = "failed") =>
                /\ ~r'[c].success
                /\ r'[c].backup_path = EmptyPath
                /\ fs'[T] = fs[T]
                /\ fs'[backup_path(T)] = fs[backup_path(T)]]_vars
    /\ [][\A c \in Frames :
            (h[c].stage = "failed" /\ ~h[c].incaller
               /\ pc[c] \in {"replaced", "rb_check", "rb_remove", "rb_restore"}) =>
                /\ fs' = fs
                /\ pc'[c] \in {"rb_check", "cleanup"}]_vars
    /\ [](\A c \in Frames :
            (h[c].stage = "failed" /\ pc[c] \in {"cleanup", "returned"}
               /\ h[c].rbcaller = 0) =>
                /\ h[c].rb = "false"
                /\ h[c].rbend = h[c].rbfs
                /\ r[c].backup_path = EmptyPath
                /\ fs[T] = h[c].T0)

C28_Witness ==
    \E c \in Frames :
        /\ pc[c] = "returned"
        /\ h[c].stage = "failed"
        /\ h[c].rb = "false"
        /\ h[c].T0 = "old" /\ fs[T] = "old"
        /\ fs[backup_path(T)] = "stale"
        /\ fs[staging_path(T)] = "partial"

\* C29: the staged binary is purged: once an install call whose swap failed
\* at the move and its copy fallback has returned, with every deletion of
\* cleanup having succeeded, no file is left at the staging path T.new.
C29_StagingPurged ==
    \A c \in Frames :
        ( /\ pc[c] = "returned"
          /\ h[c].rbcaller = 0
          /\ h[c].stage = "ok"
          /\ MoveFailedBothWays(c)
          /\ ~h[c].clfailed /\ ~h[c].clraised )
        => ~exists(fs, staging_path(T))

\* T, T.backup and T.new are in g what they are in f
swap_paths_unchanged(f, g) ==
    \A p \in {T, backup_path(T), staging_path(T)} : g[p] = f[p]

\* C30: an install call that fails before the swap stage (invalid update
\* info, download, extraction, binary not found) never creates, modifies or
\* removes T, T.backup or T.new, and the result it returns has success
\* false, an error message and an empty backup_path; a call rejected for
\* invalid update info starts no download and touches nothing.
C30_FailureBeforeSwapTouchesNothing ==
    /\ [][(\A c \in Frames : h'[c].stage = "") =>
              swap_paths_unchanged(fs, fs')]_vars
    /\ [][\A c \in Frames :
            (pc[c] \in Inactive /\ pc'[c] = "returned" /\ calls' # calls) =>
                /\ fs' = fs /\ temp_files' = temp_files
                /\ r'[c].error_message = "invalid update info"]_vars
    /\ [](\A c \in Frames :
            (pc[c] = "returned" /\ h[c].call > 0 /\ h[c].stage = "") =>
                /\ ~r[c].success
                /\ r[c].error_message # ""
                /\ r[c].backup_path = EmptyPath
                /\ fs[T] = h[c].T0)

C30_Witness ==
    \E c \in Frames :
        /\ pc[c] = "returned"
        /\ h[c].entered
        /\ h[c].stage = ""
        /\ r[c].error_message = "launcher binary not found in archive"
        /\ fs[T] = "old"
        /\ fs[backup_path(T)] = "stale"
        /\ fs[staging_path(T)] = "stale"

\* C33: replace_launcher passes through a state, after T was renamed to
\* T.backup and before T.new is moved to T, in which there is no file at T:
\* a crash there leaves the original at T.backup and the new binary at T.new.
C33_CrashWindow ==
    \A c \in Frames :
        (pc[c] = "rl_move" /\ h[c].backup = "rename") =>
            /\ ~exists(fs, T)
            /\ h[c].T0 # Absent
            /\ fs[backup_path(T)] = h[c].T0
            /\ exists(fs, staging_path(T))
            /\ fs[staging_path(T)] = h[c].nb

C33_Witness ==
    \E c \in Frames :
        /\ pc[c] = "rl_move"
        /\ h[c].backup = "rename"
        /\ fs[T] = Absent
        /\ fs[backup_path(T)] = "old"
        /\ fs[staging_path(T)] = NewBinary(1)

\* the control points of replace_launcher, its return included
InReplace ==
    {"rl_exists", "rl_remove_stale", "rl_backup_rename", "rl_backup_copy",
     "rl_drop_staging", "rl_move", "rl_copy", "rl_remove_staging",
     "rl_restore", "replaced"}

\* C34: when T exists as replace_launcher is entered, the bytes it had are
\* at T or at T.backup in every state of replace_launcher up to its return,
\* whichever rename and copy operations fail.
C34_OriginalNeverLostInReplace ==
    \A c \in Frames :
        (pc[c] \in InReplace /\ h[c].T0 # Absent) =>
            fs[T] = h[c].T0 \/ fs[backup_path(T)] = h[c].T0

C34_Witness ==
    \E c \in Frames :
        /\ pc[c] = "replaced"
        /\ h[c].T0 = "old"
        /\ h[c].backup = "copy"
        /\ MoveFailedBothWays(c)
        /\ h[c].restore = "failed"
        /\ fs[T] = "partial"
        /\ fs[backup_path(T)] = "old"

\* C35: in the direct-replacement restart the executable bits are added to
\* the target before the process image is replaced; a failed permission
\* step returns false with no replacement attempted; the new image gets no
\* argument beyond the program name; and when the replacement call returns,
\* schedule_restart returns false and the process keeps its old image.
C35_DirectReplacement ==
    /\ [](build = "posix" =>
            /\ rpc = "exec" => target \in rperms
            /\ image # OldImage =>
                 /\ rpc = "done" /\ rret = "replaced"
                 /\ target \in rperms
                 /\ image = [path |-> target, argv |-> <<target>>]
            /\ (rpc = "done" /\ rret # "replaced") => image = OldImage
            /\ script \in {<<>>, <<[cmd |-> "stale", arg |-> ""]>>}
            /\ spawned = <<>>)
    /\ [][build = "posix" =>
            /\ rpc' = "exec" => rpc = "permissions"
            /\ (rpc = "permissions" /\ rpc' = "done") =>
                   rret' = "false" /\ image' = image /\ rperms' = rperms
            /\ (rpc = "exec" /\ image' = image) => rret' = "false"
            /\ image' # image => rpc = "exec"]_vars

C35_Witness ==
    /\ build = "posix"
    /\ rpc = "done"
    /\ rret = "replaced"
    /\ target = staging_path(T)
    /\ image.path = staging_path(T)

\* the replacement call returned
C35_ExecReturned ==
    /\ build = "posix" /\ rpc = "done" /\ rret = "false"
    /\ target \in rperms /\ target \in disk /\ image = OldImage

\* C36: in the detached-trampoline restart schedule_restart returns true
\* only when the script was written to launcher_restart.bat, with the
\* delay, the launch of the new executable and the deletion of the script
\* in this order, and the process running it was spawned afterwards; a
\* failed spawn returns false.
C36_TrampolineWritten ==
    (build = "win32" /\ rpc = "done") =>
        /\ rret = "true" =>
             /\ script = restart_script(target)
             /\ script[2].cmd = "timeout /t 2 /nobreak > nul"
             /\ script[3] = [cmd |-> "start", arg |-> target]
             /\ script[4].cmd = "del"
             /\ Len(spawned) = 1
        /\ spawned = <<>> => rret # "true"

\* C37: the binary install hands to replace_launcher was extracted from the
\* archive downloaded in the same call, never a file that was in the
\* extraction directory before this call's extraction.
C37_BinaryFromThisArchive ==
    \A c \in Frames :
        pc[c] = "rl_stage" => h[c].nb = NewBinary(h[c].call)

\* C38: zip extraction is confined to the extraction directory: every path
\* the zip reader writes lies inside download_dir/launcher_update_extract,
\* also for entries with an absolute name or with .. components.
C38_ZipConfined ==
    \A p \in zwritten : inside(ExtractDir, p)

\* the positions of glog that hold the event e
events(e) == {k \in 1..Len(glog) : glog[k] = e}

\* the last thing the call did
last_event == IF glog = <<>> THEN "" ELSE glog[Len(glog)]

\* C39: on a Steam Deck run_ghost_process checks for Steam at most three
\* times; it returns steam_running at the first check that finds Steam, and
\* after each check that does not it spawns steam and waits 5 seconds before
\* the next; after the third failed check, spawn and wait it ends the
\* process with exit code 1 without another check, so on a Steam Deck it
\* never returns steam_not_running and never reaches the proton probe; when
\* the compatdata directory cannot be created it returns error before any
\* check.
C39_SteamDeckRetry ==
    /\ Cardinality(events("check")) <= 3
    /\ \A k \in 1..(Len(glog) - 1) :
          /\ glog[k] = "check" => glog[k + 1] \in {"spawn", "spawn failed"}
          /\ glog[k] \in {"spawn", "spawn failed"} => glog[k + 1] = "wait"
          /\ glog[k] = "wait" => glog[k + 1] = "check"
    /\ gwaited = 5 * Cardinality(events("wait"))
    /\ (deck /\ gret = "steam_running") => last_event = "check"
    /\ gpc \in {"spawn", "wait"} => gret = ""
    /\ gpc = "exit" =>
          /\ Cardinality(events("check")) = 3
          /\ Cardinality(events("wait")) = 3
          /\ last_event = "wait"
    /\ gret = "exit 1" => (deck /\ last_event = "wait" /\ gwaited = 15)
    /\ deck =>
          /\ gret # "steam_not_running"
          /\ gpc # "probe"
          /\ events("probe") = {}
          /\ gpc = "done" =>
                gret \in {"steam_running", "exit 1", "error", "threw"}
    /\ events("create failed") # {} =>
          (gret = "error" /\ glog = <<"create failed">>)
    /\ (deck /\ gret = "error") => glog = <<"create failed">>

\* the third check failed, steam was spawned and waited for, and the process
\* was ended
C39_Witness ==
    /\ deck
    /\ gret = "exit 1"
    /\ Cardinality(events("check")) = 3
    /\ Cardinality(events("spawn")) = 3

\* the control points from the start of replace_launcher to the return that
\* follows rollback and cleanup
SwapRegion == {"replace", "moving", "rollback", "cleanup"}

\* C31: there is no suspension point between the start of replace_launcher
\* and the return that follows rollback and cleanup: on a cooperative
\* single-threaded executor the call holds the thread all the way, no other
\* task takes a step in between, and the target changes only in steps of the
\* call that holds the thread, so no other task can see the target missing
\* or half swapped while the swap is under way.
C31_SwapHoldsThread ==
    /\ [](\A t \in Tasks : tpc[t] \in SwapRegion => running = t)
    /\ [][\A t, u \in Tasks :
             (t # u /\ tpc[t] \in SwapRegion) => tpc'[u] = tpc[u]]_vars
    /\ [][tT' # tT =>
             \E t \in Tasks : running = t /\ tpc[t] \in SwapRegion]_vars

\* the target is renamed away by the first call while the second call's
\* download is over and only the thread keeps it from being resumed
C31_Witness ==
    /\ tpc[1] = "moving"
    /\ tT = "missing"
    /\ tpc[2] = "download"
    /\ tdisk[Archive] = 2

\* the calls that have started and not returned
in_flight == {t \in Tasks : tpc[t] \notin {"idle", "returned"}}

\* the calls that registered an entry of temp_files_
registrants == {tlist[k].by : k \in 1..Len(tlist)}

=============================================================================
